---- MODULE Spec2Model ----
(***************************************************************************)
(* Model of libwebm-rs (src/src/ebml.rs): the EBML primitive codec, the    *)
(* element kind table, the recursive tree builder WebmReader::parse and    *)
(* the typed getter layer.                                                 *)
(*                                                                         *)
(* A byte is a number in 0..255.  A u64 is an 8-tuple of bytes, most       *)
(* significant first, so that 64-bit values keep their width.  The reader  *)
(* is a byte sequence `stream`, a cursor `pos` (bytes consumed so far) and *)
(* `reader`: how its Read::read answers and the parse calls made on it.    *)
(* The recursion of build_node_tree is an explicit stack of frames.        *)
(***************************************************************************)
EXTENDS Integers, Sequences, FiniteSets, TLC

VARIABLES stream, pos, pc, stack, header, root, outcome, ncalls, cut,
          overflow_checks, ret, reader

vars == <<stream, pos, pc, stack, header, root, outcome, ncalls, cut,
          overflow_checks, reader, ret>>

(***************************************************************************)
(* Bounds of the explored inputs.                                          *)
(***************************************************************************)
MaxTok == 5
MaxBad == 3
MaxHand == 5
MaxStart == 4
MaxParses == 2

(***************************************************************************)
(* 64-bit unsigned values.                                                 *)
(***************************************************************************)
U64Zero == <<0, 0, 0, 0, 0, 0, 0, 0>>

U64(n) ==
    <<0, 0, 0, 0, (n \div 16777216) % 256, (n \div 65536) % 256,
      (n \div 256) % 256, n % 256>>

U64Fits(u) == u[1] = 0 /\ u[2] = 0 /\ u[3] = 0 /\ u[4] = 0 /\ u[5] < 128

U64Val(u) == u[5] * 16777216 + u[6] * 65536 + u[7] * 256 + u[8]

RECURSIVE U64AddFrom(_, _, _, _)
U64AddFrom(a, b, i, carry) ==
    IF i = 0 THEN <<>>
    ELSE LET s == a[i] + b[i] + carry
         IN  Append(U64AddFrom(a, b, i - 1, s \div 256), s % 256)

\* a + b on u64, wrapping modulo 2^64
U64Add(a, b) == U64AddFrom(a, b, 8, 0)

RECURSIVE U64LessFrom(_, _, _)
U64LessFrom(a, b, i) ==
    IF i > 8 THEN FALSE
    ELSE IF a[i] # b[i] THEN a[i] < b[i]
    ELSE U64LessFrom(a, b, i + 1)

\* a < b on u64
U64Less(a, b) == U64LessFrom(a, b, 1)

(***************************************************************************)
(* Primitive codec.                                                        *)
(***************************************************************************)
MAGIC_NUMBER == <<26, 69, 223, 163>>

\* mutant: the loop shifts once at most
clz_loop_once(byte, count) ==
    IF (byte \div 128) % 2 = 1 THEN count ELSE count + 1

RECURSIVE clz_loop(_, _)
clz_loop(byte, count) ==
    IF (byte \div 128) % 2 = 1 THEN count
    ELSE clz_loop((byte * 2) % 256, count + 1)

\* mutant: only the top bit is looked at
count_leading_zeros_top(byte) == IF byte >= 128 THEN 0 ELSE 1

count_leading_zeros(byte) ==
    IF byte = 0 THEN 8 ELSE clz_loop(byte, 0)

RECURSIVE uint_fold(_, _)
uint_fold(result, bytes) ==
    IF bytes = <<>> THEN result
    ELSE uint_fold(Append(Tail(result), Head(bytes)), Tail(bytes))

\* mutant: the first 8 bytes are kept instead of the last 8
bytes_to_uint_first8(bytes) ==
    uint_fold(U64Zero, IF Len(bytes) > 8 THEN SubSeq(bytes, 1, 8) ELSE bytes)

\* result = (result << 8) | b for every byte, on a u64
bytes_to_uint(bytes) == uint_fold(U64Zero, bytes)

\* mutant: a read that finds some but not all of the bytes returns them
read_bytes_short(s, p, num) ==
    IF num > Len(s) - p
    THEN [ok |-> Len(s) > p, bytes |-> SubSeq(s, p + 1, Len(s)), next |-> Len(s)]
    ELSE [ok |-> TRUE, bytes |-> SubSeq(s, p + 1, p + num), next |-> p + num]

\* mutant: a read that leaves the cursor where it was
read_bytes_peek(s, p, num) ==
    IF num > Len(s) - p
    THEN [ok |-> FALSE, bytes |-> <<>>, next |-> p]
    ELSE [ok |-> TRUE, bytes |-> SubSeq(s, p + 1, p + num), next |-> p]

\* mutant: a read that comes across a 0xFF byte fails
read_bytes_no_ff(s, p, num) ==
    IF num > Len(s) - p \/ \E k \in (p + 1)..(p + num) : s[k] = 255
    THEN [ok |-> FALSE, bytes |-> <<>>, next |-> Len(s)]
    ELSE [ok |-> TRUE, bytes |-> SubSeq(s, p + 1, p + num), next |-> p + num]

\* read_exact of num bytes at cursor p: the bytes and the cursor behind them,
\* or a failure when the stream holds fewer; the failed read_exact has taken
\* what was left and leaves the cursor at the end of the stream
read_bytes(s, p, num) ==
    IF num > Len(s) - p
    THEN [ok |-> FALSE, bytes |-> <<>>, next |-> Len(s)]
    ELSE [ok |-> TRUE, bytes |-> SubSeq(s, p + 1, p + num), next |-> p + num]

Pow2(k) == IF k = 0 THEN 1 ELSE IF k = 1 THEN 2 ELSE IF k = 2 THEN 4
           ELSE IF k = 3 THEN 8 ELSE IF k = 4 THEN 16 ELSE IF k = 5 THEN 32
           ELSE IF k = 6 THEN 64 ELSE 128

\* mutant: the length marker is left in the first byte
vint_bitmask_keep(count) == 255

\* 2u8.pow(8 - count as u32) - 1; for count = 9 the subtraction 8 - 9
\* overflows: a panic when overflow checks are compiled in, and otherwise
\* 2^(2^32 - 1) wraps to 0 in u8 and 0 - 1 wraps to 255
vint_bitmask(count) == IF count = 9 THEN 255 ELSE Pow2(8 - count) - 1

\* read_vint over a reader at cursor p: the value and the cursor behind the
\* octets read; a call that fails leaves the cursor behind what it consumed
read_vint(s, p, checks) ==
    LET first == read_bytes(s, p, 1)
    IN  IF ~first.ok
        THEN [status |-> "Truncated", value |-> U64Zero, next |-> first.next]
        ELSE
          LET count == count_leading_zeros(first.bytes[1]) + 1
              tmp   == IF count > 1 THEN read_bytes(s, first.next, count - 1)
                       ELSE [ok |-> TRUE, bytes |-> <<>>, next |-> first.next]
          IN  IF ~tmp.ok
              THEN [status |-> "Truncated", value |-> U64Zero, next |-> tmp.next]
              ELSE IF count = 9 /\ checks
              THEN [status |-> "ArithOverflow", value |-> U64Zero,
                    next |-> tmp.next]
              ELSE
                LET masked == first.bytes[1] % (vint_bitmask(count) + 1)
                IN  [status |-> "Ok",
                     value |-> bytes_to_uint(<<masked>> \o tmp.bytes),
                     next |-> tmp.next]

(***************************************************************************)
(* Element kind table (the match of parse_element).                        *)
(***************************************************************************)
UIntIds == {231, 171, 204, 215, 131, 185, 136, 156, 154, 176, 186, 159, 179,
            241, 247, 167, 17030, 17143, 17138, 17139, 17031, 17029, 21420,
            29637, 21930, 22186, 22203, 21432, 21440, 21368, 2807729, 2352003}
SIntIds == {251, 30114}
FloatIds == {181, 17545, 2306383}
DateIds == {17505}
StringIds == {134, 17026, 2274716}
UTF8Ids == {155, 19840, 22337, 21358, 2459272}
BinaryIds == {163, 161, 236, 191, 21419, 25506, 29604}
MasterIds == {160, 142, 232, 174, 224, 225, 187, 183, 19899, 440786851,
              408125543, 290298740, 357149030, 524531317, 374648427,
              475249515}

\* kind of an identifier that fits 31 bits
KindOfVal(v) ==
    IF v \in UIntIds THEN "UInt"
    ELSE IF v \in SIntIds THEN "SInt"
    ELSE IF v \in FloatIds THEN "Float"
    ELSE IF v \in DateIds THEN "Date"
    ELSE IF v \in StringIds THEN "String"
    ELSE IF v \in UTF8Ids THEN "UTF8"
    ELSE IF v \in BinaryIds THEN "Binary"
    ELSE IF v \in MasterIds THEN "Master"
    ELSE "Unknown"

\* mutant: an identifier missing from the table is taken for a container
ElementKind_unknown_master(id) ==
    IF U64Fits(id) /\ KindOfVal(U64Val(id)) # "Unknown"
    THEN KindOfVal(U64Val(id)) ELSE "Master"

\* kind of a u64 identifier; no identifier of the table needs more than 31 bits
ElementKind(id) == IF U64Fits(id) THEN KindOfVal(U64Val(id)) ELSE "Unknown"

NoElement == [id |-> U64Zero, size |-> U64Zero, kind |-> "Unknown", data |-> <<>>]

\* a call that fails: no element, the cursor where the call left it
ElemFail(why, c) == [status |-> why, elem |-> NoElement, body |-> c, next |-> c]

\* vec![0; num] of read_bytes for a payload of num bytes (usize of 64 bits):
\* the capacity check fails from 2^63, no address space holds 2^47 bytes and
\* more, and from 2^31 on the allocator of the machine grants the request or
\* refuses it, which ends the process without unwinding
vec_zeroed(num, grant) ==
    IF num[1] >= 128 THEN "CapacityOverflow"
    ELSE IF num[1] # 0 \/ num[2] # 0 \/ num[3] >= 128 THEN "AllocFailed"
    ELSE IF U64Fits(num) \/ grant THEN "Ok"
    ELSE "AllocFailed"

\* parse_element at cursor p: the element, the offset `body` behind its id
\* and size octets, and the cursor behind what was read.  A call that fails
\* leaves the cursor behind what it consumed; `grant` is the answer of the
\* allocator to a request it may refuse
parse_element(s, p, checks, grant) ==
    LET first == read_bytes(s, p, 1)
    IN  IF ~first.ok THEN ElemFail("Truncated", first.next)
        ELSE
          LET id_size == count_leading_zeros(first.bytes[1]) + 1
              idb     == read_bytes(s, p, id_size)
          IN  IF ~idb.ok THEN ElemFail("Truncated", idb.next)
              ELSE
                LET id   == bytes_to_uint(idb.bytes)
                    sz   == read_vint(s, idb.next, checks)
                    kind == ElementKind(id)
                IN  IF sz.status # "Ok" THEN ElemFail(sz.status, sz.next)
                    ELSE IF kind = "Master"
                    THEN [status |-> "Ok",
                          elem |-> [id |-> id, size |-> sz.value,
                                    kind |-> kind, data |-> <<>>],
                          body |-> sz.next, next |-> sz.next]
                    ELSE IF vec_zeroed(sz.value, grant) # "Ok"
                    THEN ElemFail(vec_zeroed(sz.value, grant), sz.next)
                    ELSE IF ~U64Fits(sz.value)
                    THEN ElemFail("Truncated", Len(s))
                    ELSE
                      LET data == read_bytes(s, sz.next, U64Val(sz.value))
                      IN  IF ~data.ok THEN ElemFail("Truncated", data.next)
                          ELSE [status |-> "Ok",
                                elem |-> [id |-> id, size |-> sz.value,
                                          kind |-> kind, data |-> data.bytes],
                                body |-> sz.next, next |-> data.next]

(***************************************************************************)
(* Input streams.                                                          *)
(***************************************************************************)
SegmentIdBytes == <<24, 83, 128, 103>>

Tokens == {<<128>>, <<129>>, <<130>>, <<236>>, <<160>>, <<0>>, SegmentIdBytes}

TokSeqs(n) == UNION {[1..k -> Tokens] : k \in 0..n}

RECURSIVE Flatten(_)
Flatten(ts) == IF ts = <<>> THEN <<>> ELSE Head(ts) \o Flatten(Tail(ts))

Corrupted(i) == [MAGIC_NUMBER EXCEPT ![i] = 128]

ParseInputs ==
    {MAGIC_NUMBER \o Flatten(t) : t \in TokSeqs(MaxTok)}
    \cup {Flatten(t) : t \in TokSeqs(MaxBad)}
    \cup {SubSeq(MAGIC_NUMBER, 1, k) : k \in 0..3}
    \cup {Corrupted(i) \o Flatten(t) : i \in 1..4, t \in TokSeqs(MaxBad)}

\* streams that hold the signature anywhere, for readers that are handed over
\* somewhere behind the start or that parse twice
HandTokens == {<<128>>, <<129>>, MAGIC_NUMBER}

HandInputs == {Flatten(t) : t \in UNION {[1..k -> HandTokens] : k \in 0..MaxHand}}

BuildProfiles == BOOLEAN

\* how Read::read of the byte source answers: a Cursor or a File fills the
\* buffer as far as the bytes go ("whole"), another source may hand out less
\* per call ("chunked"), and a source may answer with an error ("failing")
ReaderKinds == {"whole", "chunked", "failing"}

(***************************************************************************)
(* The parser as a state machine.                                          *)
(***************************************************************************)
Running == [status |-> "Running", kind |-> "None"]
OkOutcome == [status |-> "Ok", kind |-> "None"]
Panic(why) == [status |-> "Panic", kind |-> why]
\* the process is ended by the allocator: nothing unwinds, nothing is returned
Abort(why) == [status |-> "Abort", kind |-> why]

\* how parse ends when parse_element fails with `why`
Failure(why) == IF why = "AllocFailed" THEN Abort(why) ELSE Panic(why)

NoCall == [status |-> "none"]

Min(a, b) == IF a < b THEN a ELSE b

\* a WebmReader on which parse has not been called
FreshReader(kind) == [kind |-> kind, parses |-> 0]

\* WebmReader::new over a byte source of the given kind that stands at
\* offset p of the stream s: the source is stored as it is
InitReader(s, p, kind) ==
    /\ stream = s
    /\ pos = p
    /\ reader = FreshReader(kind)
    /\ pc = "new"
    /\ stack = <<>>
    /\ header = <<>>
    /\ root = <<>>
    /\ outcome = Running
    /\ ncalls = 0
    /\ cut = -1
    /\ ret = NoCall

Init ==
    /\ \E s \in ParseInputs \cup HandInputs, kind \in ReaderKinds :
          \E p \in 0..Min(MaxStart, Len(s)) : InitReader(s, p, kind)
    /\ overflow_checks \in BuildProfiles

\* the counts that one Read::read call into a 4-byte buffer may return when
\* the source stands at offset p of s: nothing at the end of the stream,
\* otherwise at least one byte and at most what is left
ReadSizes(kind, s, p) ==
    LET left == Min(4, Len(s) - p)
    IN  IF left = 0 THEN {0}
        ELSE IF kind = "whole" THEN {left}
        ELSE 1..left

\* check_magic_number when its one Read::read call at offset p returned size
\* bytes: the verdict and the cursor behind the bytes read
check_magic_number(s, p, size) ==
    [ok |-> IF size # 4 THEN FALSE
            ELSE SubSeq(s, p + 1, p + 4) = MAGIC_NUMBER,
     next |-> p + size]

\* parse, up to the first build_node_tree call: the signature is read where
\* the source stands, and the seek to offset 0 follows a good verdict
ParseCheckMagic ==
    /\ pc = "new"
    /\ reader' = [reader EXCEPT !.parses = @ + 1]
    /\ IF reader.kind = "failing"
       THEN /\ pos' = pos
            /\ pc' = "done"
            /\ outcome' = Panic("IoError")
       ELSE \E size \in ReadSizes(reader.kind, stream, pos) :
              LET m == check_magic_number(stream, pos, size)
              IN  IF m.ok
                  THEN /\ pos' = 0
                       /\ pc' = "header"
                       /\ outcome' = outcome
                  ELSE /\ pos' = m.next
                       /\ pc' = "done"
                       /\ outcome' = Panic("BadSignature")
    /\ UNCHANGED <<stream, stack, header, root, ncalls, cut, overflow_checks, ret>>

\* parse is called once more on the reader that returned a Document: the
\* source stands where the last parse left it
ParseAgain ==
    /\ pc = "done"
    /\ outcome.status = "Ok"
    /\ cut = -1
    /\ reader.parses < MaxParses
    /\ pc' = "new"
    /\ stack' = <<>>
    /\ header' = <<>>
    /\ root' = <<>>
    /\ outcome' = Running
    /\ ncalls' = 0
    /\ UNCHANGED <<stream, pos, cut, overflow_checks, reader, ret>>

\* mutant: the loop runs once more when the offset has reached the boundary
LoopCond_inclusive(f, offset) ==
    ~U64Less(U64Add(U64(f.start), f.elem.size), U64(offset))

\* while offset < start + elem.size
LoopCond(f, offset) == U64Less(U64(offset), U64Add(U64(f.start), f.elem.size))

\* mutant: the bytes of the subtree are kept as the payload of the node
MakeNode_raw(elem, children, first, body, last) ==
    [element |-> [elem EXCEPT !.data = SubSeq(stream, body + 1, last)],
     children |-> children,
     span |-> [first |-> first, body |-> body, last |-> last]]

MakeNode(elem, children, first, body, last) ==
    [element |-> elem, children |-> children,
     span |-> [first |-> first, body |-> body, last |-> last]]

\* mutant: parse rejects a root that is not a Segment
Deliver_segment_only(node, callers) ==
    IF callers = <<>>
    THEN /\ stack' = <<>>
         /\ IF pc = "header"
            THEN /\ header' = <<node>>
                 /\ root' = root
                 /\ pc' = "root"
                 /\ outcome' = outcome
            ELSE IF node.element.id # U64(408125543)
            THEN /\ root' = root
                 /\ header' = header
                 /\ pc' = "done"
                 /\ outcome' = Panic("BadRoot")
            ELSE /\ root' = <<node>>
                 /\ header' = header
                 /\ pc' = "done"
                 /\ outcome' = OkOutcome
    ELSE /\ stack' = [callers EXCEPT ![Len(callers)].children = Append(@, node)]
         /\ UNCHANGED <<header, root, pc, outcome>>

\* mutant: parse fails when bytes are left behind the root
Deliver_no_trailing(node, callers) ==
    IF callers = <<>>
    THEN /\ stack' = <<>>
         /\ IF pc = "header"
            THEN /\ header' = <<node>>
                 /\ root' = root
                 /\ pc' = "root"
                 /\ outcome' = outcome
            ELSE IF node.span.last # Len(stream)
            THEN /\ root' = root
                 /\ header' = header
                 /\ pc' = "done"
                 /\ outcome' = Panic("TrailingBytes")
            ELSE /\ root' = <<node>>
                 /\ header' = header
                 /\ pc' = "done"
                 /\ outcome' = OkOutcome
    ELSE /\ stack' = [callers EXCEPT ![Len(callers)].children = Append(@, node)]
         /\ UNCHANGED <<header, root, pc, outcome>>

\* a finished node goes to the caller: the children of the enclosing
\* build_node_tree, or header and root of parse
Deliver(node, callers) ==
    IF callers = <<>>
    THEN /\ stack' = <<>>
         /\ IF pc = "header"
            THEN /\ header' = <<node>>
                 /\ root' = root
                 /\ pc' = "root"
                 /\ outcome' = outcome
            ELSE /\ root' = <<node>>
                 /\ header' = header
                 /\ pc' = "done"
                 /\ outcome' = OkOutcome
    ELSE /\ stack' = [callers EXCEPT ![Len(callers)].children = Append(@, node)]
         /\ UNCHANGED <<header, root, pc, outcome>>

\* build_node_tree: the call of parse_element and what follows it directly;
\* when the call fails the reader stays where the failing read left it
BuildNodeTreeCall ==
    /\ pc \in {"header", "root"}
    /\ stack # <<>> => LoopCond(stack[Len(stack)], pos)
    /\ \E grant \in BOOLEAN :
       LET r == parse_element(stream, pos, overflow_checks, grant)
       IN  /\ ncalls' = ncalls + 1
           /\ IF r.status # "Ok"
              THEN /\ pc' = "done"
                   /\ outcome' = Failure(r.status)
                   /\ stack' = <<>>
                   /\ pos' = r.next
                   /\ UNCHANGED <<header, root>>
              ELSE IF r.elem.kind = "Master"
              THEN /\ stack' = Append(stack, [elem |-> r.elem, children |-> <<>>,
                                              first |-> pos, start |-> r.next])
                   /\ pos' = r.next
                   /\ UNCHANGED <<header, root, pc, outcome>>
              ELSE /\ pos' = r.next
                   /\ Deliver(MakeNode(r.elem, <<>>, pos, r.body, r.next), stack)
    /\ UNCHANGED <<stream, cut, overflow_checks, reader, ret>>

\* build_node_tree: the loop of a Master element ends and the node is returned
BuildNodeTreeReturn ==
    /\ pc \in {"header", "root"}
    /\ stack # <<>>
    /\ ~LoopCond(stack[Len(stack)], pos)
    /\ LET f == stack[Len(stack)]
       IN  Deliver(MakeNode(f.elem, f.children, f.first, f.start, pos),
                   SubSeq(stack, 1, Len(stack) - 1))
    /\ UNCHANGED <<stream, pos, ncalls, cut, overflow_checks, reader, ret>>

\* WebmReader::new over a Cursor on the first t bytes of a stream that parsed
\* successfully, and parse again
NewReaderTruncated ==
    /\ pc = "done"
    /\ outcome.status = "Ok"
    /\ cut = -1
    /\ \E t \in 1..(pos - 1) :
          /\ stream' = SubSeq(stream, 1, t)
          /\ cut' = t
    /\ pos' = 0
    /\ pc' = "new"
    /\ stack' = <<>>
    /\ header' = <<>>
    /\ root' = <<>>
    /\ outcome' = Running
    /\ ncalls' = 0
    /\ reader' = FreshReader("whole")
    /\ UNCHANGED <<overflow_checks, ret>>

Next ==
    \/ ParseCheckMagic
    \/ BuildNodeTreeCall
    \/ BuildNodeTreeReturn
    \/ ParseAgain
    \/ NewReaderTruncated

Spec == Init /\ [][Next]_vars

TypeOK ==
    /\ pc \in {"new", "header", "root", "done"}
    /\ pos \in 0..Len(stream)
    /\ reader \in [kind : ReaderKinds, parses : 0..MaxParses]
    /\ outcome.status \in {"Running", "Ok", "Panic", "Abort"}

(***************************************************************************)
(* Documents and their nodes.                                              *)
(***************************************************************************)
RECURSIVE NodesOf(_)
NodesOf(n) == {n} \cup UNION {NodesOf(n.children[i]) : i \in 1..Len(n.children)}

RECURSIVE SeqNodes(_)
SeqNodes(ns) == IF ns = <<>> THEN {} ELSE NodesOf(Head(ns)) \cup SeqNodes(Tail(ns))

\* the nodes of the Document that parse returned
DocNodes == IF outcome.status = "Ok" THEN SeqNodes(header \o root) ELSE {}

\* every node constructed so far, returned or still held by a caller
BuiltNodes ==
    SeqNodes(header \o root)
    \cup UNION {SeqNodes(stack[i].children) : i \in 1..Len(stack)}

RECURSIVE SumLen(_)
\* id octets + size octets + payload or subtree length
EncodedLen(n) ==
    (n.span.body - n.span.first)
    + (IF n.element.kind = "Master" THEN SumLen(n.children)
       ELSE Len(n.element.data))
SumLen(ns) == IF ns = <<>> THEN 0 ELSE EncodedLen(Head(ns)) + SumLen(Tail(ns))

Returned == pc = "done" /\ outcome.status = "Ok"

KnownIds == UIntIds \cup SIntIds \cup FloatIds \cup DateIds \cup StringIds
            \cup UTF8Ids \cup BinaryIds \cup MasterIds

InKindTable(id) == U64Fits(id) /\ U64Val(id) \in KnownIds

EBMLHeaderId == U64(440786851)
SegmentId == U64(408125543)

(***************************************************************************)
(* Payload conversions (impl ElementData and the Into impls).              *)
(***************************************************************************)
I64Max == <<127, 255, 255, 255, 255, 255, 255, 255>>

\* mutant: the accumulator starts at 0 whatever the top bit
bytes_to_int_unsigned(bytes) ==
    IF bytes = <<>> THEN [ok |-> FALSE, why |-> "IndexOutOfBounds", v |-> U64Zero]
    ELSE [ok |-> TRUE, why |-> "None", v |-> uint_fold(U64Zero, bytes)]

\* the i64 is kept as its 64-bit two's-complement pattern; indexing bytes[0]
\* of an empty slice panics
bytes_to_int(bytes) ==
    IF bytes = <<>> THEN [ok |-> FALSE, why |-> "IndexOutOfBounds", v |-> U64Zero]
    ELSE [ok |-> TRUE, why |-> "None",
          v |-> uint_fold(IF bytes[1] >= 128 THEN I64Max ELSE U64Zero, bytes)]

\* f64::from_bits for more than 4 bytes, else the f32 with the low 32 bits,
\* widened; the value is kept as the source width and the bit pattern
bytes_to_float(bytes) ==
    LET bits == bytes_to_uint(bytes)
    IN  IF Len(bytes) > 4 THEN [width |-> 64, bits |-> bits]
        ELSE [width |-> 32, bits |-> SubSeq(bits, 5, 8)]

IsCont(b) == b >= 128 /\ b <= 191

\* String::from_utf8: the code points, or a failure on a byte sequence that
\* is not well-formed UTF-8
RECURSIVE from_utf8(_)
from_utf8(bytes) ==
    IF bytes = <<>> THEN [ok |-> TRUE, chars |-> <<>>]
    ELSE
      LET b0 == bytes[1]
          n  == Len(bytes)
          need == IF b0 < 128 THEN 1
                  ELSE IF b0 >= 194 /\ b0 <= 223 THEN 2
                  ELSE IF b0 >= 224 /\ b0 <= 239 THEN 3
                  ELSE IF b0 >= 240 /\ b0 <= 244 THEN 4
                  ELSE 0
          good ==
            /\ need > 0
            /\ n >= need
            /\ \A k \in 2..need : IsCont(bytes[k])
            /\ b0 = 224 => bytes[2] >= 160
            /\ b0 = 237 => bytes[2] <= 159
            /\ b0 = 240 => bytes[2] >= 144
            /\ b0 = 244 => bytes[2] <= 143
          cp == IF need = 1 THEN b0
                ELSE IF need = 2 THEN (b0 % 32) * 64 + (bytes[2] % 64)
                ELSE IF need = 3
                THEN (b0 % 16) * 4096 + (bytes[2] % 64) * 64 + (bytes[3] % 64)
                ELSE (b0 % 8) * 262144 + (bytes[2] % 64) * 4096
                     + (bytes[3] % 64) * 64 + (bytes[4] % 64)
      IN  IF ~good THEN [ok |-> FALSE, chars |-> <<>>]
          ELSE LET rest == from_utf8(SubSeq(bytes, need + 1, n))
               IN  IF rest.ok THEN [ok |-> TRUE, chars |-> <<cp>> \o rest.chars]
                   ELSE rest

\* mutant: a lossy decode, U+FFFD for a payload that is not UTF-8
bytes_to_string_lossy(bytes) ==
    LET r == from_utf8(bytes)
    IN  IF r.ok THEN [ok |-> TRUE, why |-> "None", v |-> r.chars]
        ELSE [ok |-> TRUE, why |-> "None", v |-> <<65533>>]

\* from_utf8(..).unwrap()
bytes_to_string(bytes) ==
    LET r == from_utf8(bytes)
    IN  IF r.ok THEN [ok |-> TRUE, why |-> "None", v |-> r.chars]
        ELSE [ok |-> FALSE, why |-> "InvalidEncoding", v |-> <<>>]

Converted(t, v) == [ok |-> TRUE, why |-> "None", value |-> [t |-> t, v |-> v]]
ConvFail(why) == [ok |-> FALSE, why |-> why, value |-> [t |-> "none", v |-> <<>>]]

\* ElementData -> u64 | i64 | f64 | String | Vec<u8> | bool
Into(conv, data) ==
    IF conv = "uint" THEN Converted("u64", bytes_to_uint(data))
    ELSE IF conv = "int"
    THEN LET r == bytes_to_int(data)
         IN  IF r.ok THEN Converted("i64", r.v) ELSE ConvFail(r.why)
    ELSE IF conv = "bool"
    THEN LET r == bytes_to_int(data)
         IN  IF r.ok THEN Converted("bool", r.v = U64(1)) ELSE ConvFail(r.why)
    ELSE IF conv = "float" THEN Converted("f64", bytes_to_float(data))
    ELSE IF conv = "string"
    THEN LET r == bytes_to_string(data)
         IN  IF r.ok THEN Converted("String", r.v) ELSE ConvFail(r.why)
    ELSE Converted("Vec<u8>", data)

(***************************************************************************)
(* Typed views: the lookup macros and the getter table.                    *)
(***************************************************************************)
RECURSIVE WithChildren(_)
WithChildren(list) ==
    IF list = <<>> THEN <<>>
    ELSE <<Head(list)>> \o Head(list).children \o WithChildren(Tail(list))

\* mutant: the children of the children are searched too
filter_nodes_raw_deep(list, id) ==
    SelectSeq(WithChildren(list), LAMBDA node : node.element.id = id)

\* filter_nodes_raw!: the nodes of the list with the identifier, in order
filter_nodes_raw(list, id) == SelectSeq(list, LAMBDA node : node.element.id = id)

\* find_node!: the first node of the list with the identifier, if any
find_node(list, id) ==
    LET found == filter_nodes_raw(list, id)
    IN  IF found = <<>> THEN <<>> ELSE <<found[1]>>

\* find_node_data!: the payload of that node
find_node_data(list, id) ==
    LET n == find_node(list, id)
    IN  IF n = <<>> THEN <<>> ELSE <<n[1].element.data>>

\* view: the type the getter belongs to; id: the identifier it looks up;
\* card: mand (unwrap), opt (Option) or rep (Vec); shape: scalar (payload
\* converted by conv) or node (child wrapped in the view type conv)
Getters == {
    [view |-> "EBMLHeaderNode", name |-> "get_version", id |-> 17030, card |-> "mand", shape |-> "scalar", conv |-> "uint"],
    [view |-> "EBMLHeaderNode", name |-> "get_read_version", id |-> 17143, card |-> "mand", shape |-> "scalar", conv |-> "uint"],
    [view |-> "EBMLHeaderNode", name |-> "get_max_id_length", id |-> 17138, card |-> "mand", shape |-> "scalar", conv |-> "uint"],
    [view |-> "EBMLHeaderNode", name |-> "get_max_size_length", id |-> 17139, card |-> "mand", shape |-> "scalar", conv |-> "uint"],
    [view |-> "EBMLHeaderNode", name |-> "get_doc_type", id |-> 17026, card |-> "mand", shape |-> "scalar", conv |-> "string"],
    [view |-> "EBMLHeaderNode", name |-> "get_doc_type_version", id |-> 17031, card |-> "mand", shape |-> "scalar", conv |-> "uint"],
    [view |-> "EBMLHeaderNode", name |-> "get_doc_type_read_version", id |-> 17029, card |-> "mand", shape |-> "scalar", conv |-> "uint"],
    [view |-> "SegmentNode", name |-> "get_seek_head_nodes", id |-> 290298740, card |-> "rep", shape |-> "node", conv |-> "SeekHeadNode"],
    [view |-> "SegmentNode", name |-> "get_info_nodes", id |-> 357149030, card |-> "rep", shape |-> "node", conv |-> "InfoNode"],
    [view |-> "SegmentNode", name |-> "get_clusters", id |-> 524531317, card |-> "rep", shape |-> "node", conv |-> "ClusterNode"],
    [view |-> "SegmentNode", name |-> "get_tracks", id |-> 374648427, card |-> "rep", shape |-> "node", conv |-> "TracksNode"],
    [view |-> "SegmentNode", name |-> "get_cues", id |-> 475249515, card |-> "rep", shape |-> "node", conv |-> "CuesNode"],
    [view |-> "SegmentNode", name |-> "get_chapters", id |-> 272869232, card |-> "rep", shape |-> "node", conv |-> "ChaptersNode"],
    [view |-> "SegmentNode", name |-> "get_tags", id |-> 307544935, card |-> "rep", shape |-> "node", conv |-> "TagsNode"],
    [view |-> "SeekHeadNode", name |-> "get_seek_nodes", id |-> 19899, card |-> "rep", shape |-> "node", conv |-> "SeekNode"],
    [view |-> "SeekNode", name |-> "get_seek_id", id |-> 21419, card |-> "mand", shape |-> "scalar", conv |-> "bytes"],
    [view |-> "SeekNode", name |-> "get_seek_position", id |-> 21420, card |-> "mand", shape |-> "scalar", conv |-> "uint"],
    [view |-> "InfoNode", name |-> "get_timestamp_scale", id |-> 2807729, card |-> "mand", shape |-> "scalar", conv |-> "uint"],
    [view |-> "InfoNode", name |-> "get_duration", id |-> 17545, card |-> "opt", shape |-> "scalar", conv |-> "float"],
    [view |-> "InfoNode", name |-> "get_date_created", id |-> 17505, card |-> "opt", shape |-> "scalar", conv |-> "int"],
    [view |-> "InfoNode", name |-> "get_muxing_app", id |-> 19840, card |-> "mand", shape |-> "scalar", conv |-> "string"],
    [view |-> "InfoNode", name |-> "get_writing_app", id |-> 22337, card |-> "mand", shape |-> "scalar", conv |-> "string"],
    [view |-> "ClusterNode", name |-> "get_timestamp", id |-> 231, card |-> "mand", shape |-> "scalar", conv |-> "uint"],
    [view |-> "ClusterNode", name |-> "get_prev_size", id |-> 171, card |-> "opt", shape |-> "scalar", conv |-> "uint"],
    [view |-> "ClusterNode", name |-> "get_simple_blocks", id |-> 163, card |-> "rep", shape |-> "node", conv |-> "Node"],
    [view |-> "ClusterNode", name |-> "get_block_groups", id |-> 160, card |-> "rep", shape |-> "node", conv |-> "BlockGroupNode"],
    [view |-> "BlockGroupNode", name |-> "get_block_duration", id |-> 155, card |-> "opt", shape |-> "scalar", conv |-> "uint"],
    [view |-> "BlockGroupNode", name |-> "get_reference_blocks", id |-> 251, card |-> "rep", shape |-> "scalar", conv |-> "int"],
    [view |-> "BlockGroupNode", name |-> "get_discard_padding", id |-> 30114, card |-> "opt", shape |-> "scalar", conv |-> "int"],
    [view |-> "BlockGroupNode", name |-> "get_slices", id |-> 142, card |-> "opt", shape |-> "node", conv |-> "SlicesNode"],
    [view |-> "TracksNode", name |-> "get_track_entries", id |-> 174, card |-> "rep", shape |-> "node", conv |-> "TrackEntryNode"],
    [view |-> "TrackEntryNode", name |-> "get_track_number", id |-> 215, card |-> "mand", shape |-> "scalar", conv |-> "uint"],
    [view |-> "TrackEntryNode", name |-> "get_track_uid", id |-> 29637, card |-> "mand", shape |-> "scalar", conv |-> "uint"],
    [view |-> "TrackEntryNode", name |-> "get_track_type", id |-> 131, card |-> "mand", shape |-> "scalar", conv |-> "uint"],
    [view |-> "TrackEntryNode", name |-> "is_enabled", id |-> 185, card |-> "mand", shape |-> "scalar", conv |-> "bool"],
    [view |-> "TrackEntryNode", name |-> "is_default", id |-> 136, card |-> "mand", shape |-> "scalar", conv |-> "bool"],
    [view |-> "TrackEntryNode", name |-> "is_forced", id |-> 21930, card |-> "mand", shape |-> "scalar", conv |-> "bool"],
    [view |-> "TrackEntryNode", name |-> "is_laced", id |-> 156, card |-> "mand", shape |-> "scalar", conv |-> "bool"],
    [view |-> "TrackEntryNode", name |-> "get_default_duration", id |-> 2352003, card |-> "opt", shape |-> "scalar", conv |-> "uint"],
    [view |-> "TrackEntryNode", name |-> "get_name", id |-> 21358, card |-> "opt", shape |-> "scalar", conv |-> "string"],
    [view |-> "TrackEntryNode", name |-> "get_language", id |-> 2274716, card |-> "opt", shape |-> "scalar", conv |-> "string"],
    [view |-> "TrackEntryNode", name |-> "get_codec_id", id |-> 134, card |-> "mand", shape |-> "scalar", conv |-> "string"],
    [view |-> "TrackEntryNode", name |-> "get_codec_private", id |-> 25506, card |-> "opt", shape |-> "scalar", conv |-> "bytes"],
    [view |-> "TrackEntryNode", name |-> "get_codec_name", id |-> 2459272, card |-> "opt", shape |-> "scalar", conv |-> "string"],
    [view |-> "TrackEntryNode", name |-> "get_codec_delay", id |-> 22186, card |-> "opt", shape |-> "scalar", conv |-> "uint"],
    [view |-> "TrackEntryNode", name |-> "get_seek_preroll", id |-> 22203, card |-> "mand", shape |-> "scalar", conv |-> "uint"],
    [view |-> "TrackEntryNode", name |-> "get_video_settings", id |-> 224, card |-> "opt", shape |-> "node", conv |-> "VideoNode"],
    [view |-> "TrackEntryNode", name |-> "get_audio_settings", id |-> 225, card |-> "opt", shape |-> "node", conv |-> "AudioNode"],
    [view |-> "TrackEntryNode", name |-> "get_encoding_settings", id |-> 28032, card |-> "opt", shape |-> "node", conv |-> "ContentEncodingsNode"],
    [view |-> "VideoNode", name |-> "get_interlacing_flag", id |-> 154, card |-> "mand", shape |-> "scalar", conv |-> "uint"],
    [view |-> "VideoNode", name |-> "get_stereo_mode", id |-> 21432, card |-> "opt", shape |-> "scalar", conv |-> "uint"],
    [view |-> "VideoNode", name |-> "get_alpha_mode", id |-> 21440, card |-> "opt", shape |-> "scalar", conv |-> "uint"],
    [view |-> "VideoNode", name |-> "get_pixel_width", id |-> 176, card |-> "mand", shape |-> "scalar", conv |-> "uint"],
    [view |-> "VideoNode", name |-> "get_pixel_height", id |-> 186, card |-> "mand", shape |-> "scalar", conv |-> "uint"],
    [view |-> "VideoNode", name |-> "get_pixel_crop_bottom", id |-> 21674, card |-> "opt", shape |-> "scalar", conv |-> "uint"],
    [view |-> "VideoNode", name |-> "get_pixel_crop_top", id |-> 21691, card |-> "opt", shape |-> "scalar", conv |-> "uint"],
    [view |-> "VideoNode", name |-> "get_pixel_crop_left", id |-> 21708, card |-> "opt", shape |-> "scalar", conv |-> "uint"],
    [view |-> "VideoNode", name |-> "get_pixel_crop_right", id |-> 21725, card |-> "opt", shape |-> "scalar", conv |-> "uint"],
    [view |-> "VideoNode", name |-> "get_display_width", id |-> 21680, card |-> "opt", shape |-> "scalar", conv |-> "uint"],
    [view |-> "VideoNode", name |-> "get_display_height", id |-> 21690, card |-> "opt", shape |-> "scalar", conv |-> "uint"],
    [view |-> "VideoNode", name |-> "get_display_unit", id |-> 21682, card |-> "opt", shape |-> "scalar", conv |-> "uint"],
    [view |-> "VideoNode", name |-> "get_aspect_ratio_type", id |-> 21683, card |-> "opt", shape |-> "scalar", conv |-> "uint"],
    [view |-> "ProjectionNode", name |-> "get_type", id |-> 30321, card |-> "mand", shape |-> "scalar", conv |-> "uint"],
    [view |-> "ProjectionNode", name |-> "get_private", id |-> 30322, card |-> "opt", shape |-> "scalar", conv |-> "bytes"],
    [view |-> "ProjectionNode", name |-> "get_pose_yaw", id |-> 30323, card |-> "mand", shape |-> "scalar", conv |-> "float"],
    [view |-> "ProjectionNode", name |-> "get_pose_pitch", id |-> 30324, card |-> "mand", shape |-> "scalar", conv |-> "float"],
    [view |-> "ProjectionNode", name |-> "get_pose_roll", id |-> 30325, card |-> "mand", shape |-> "scalar", conv |-> "float"],
    [view |-> "AudioNode", name |-> "get_sampling_frequency", id |-> 181, card |-> "mand", shape |-> "scalar", conv |-> "float"],
    [view |-> "AudioNode", name |-> "get_output_sampling_frequency", id |-> 30901, card |-> "opt", shape |-> "scalar", conv |-> "float"],
    [view |-> "AudioNode", name |-> "get_num_channels", id |-> 159, card |-> "mand", shape |-> "scalar", conv |-> "uint"],
    [view |-> "AudioNode", name |-> "get_bit_depth", id |-> 25188, card |-> "opt", shape |-> "scalar", conv |-> "uint"],
    [view |-> "ContentEncodingsNode", name |-> "get_encodings", id |-> 25152, card |-> "rep", shape |-> "node", conv |-> "ContentEncodingNode"],
    [view |-> "ContentEncodingNode", name |-> "get_order", id |-> 20529, card |-> "mand", shape |-> "scalar", conv |-> "uint"],
    [view |-> "ContentEncodingNode", name |-> "get_scope", id |-> 20530, card |-> "mand", shape |-> "scalar", conv |-> "uint"],
    [view |-> "ContentEncodingNode", name |-> "get_type", id |-> 20531, card |-> "mand", shape |-> "scalar", conv |-> "uint"],
    [view |-> "ContentEncodingNode", name |-> "get_encryption_node", id |-> 20533, card |-> "mand", shape |-> "node", conv |-> "ContentEncryptionNode"],
    [view |-> "ContentEncryptionNode", name |-> "get_algorithm_type", id |-> 18401, card |-> "mand", shape |-> "scalar", conv |-> "uint"],
    [view |-> "ContentEncryptionNode", name |-> "get_key_id", id |-> 18402, card |-> "opt", shape |-> "scalar", conv |-> "bytes"],
    [view |-> "ContentEncryptionNode", name |-> "get_aes_settings", id |-> 18407, card |-> "opt", shape |-> "node", conv |-> "ContentEncAESSettingsNode"],
    [view |-> "ContentEncAESSettingsNode", name |-> "get_mode", id |-> 18408, card |-> "mand", shape |-> "scalar", conv |-> "uint"],
    [view |-> "CuesNode", name |-> "get_cue_points", id |-> 187, card |-> "rep", shape |-> "node", conv |-> "CuePointNode"],
    [view |-> "CuePointNode", name |-> "get_time", id |-> 179, card |-> "mand", shape |-> "scalar", conv |-> "uint"],
    [view |-> "CuePointNode", name |-> "get_positions", id |-> 183, card |-> "rep", shape |-> "node", conv |-> "CueTrackPositionsNode"],
    [view |-> "CueTrackPositionsNode", name |-> "get_track", id |-> 247, card |-> "mand", shape |-> "scalar", conv |-> "uint"],
    [view |-> "CueTrackPositionsNode", name |-> "get_cluster_position", id |-> 241, card |-> "mand", shape |-> "scalar", conv |-> "uint"],
    [view |-> "CueTrackPositionsNode", name |-> "get_block_number", id |-> 21368, card |-> "opt", shape |-> "scalar", conv |-> "uint"],
    [view |-> "ChaptersNode", name |-> "get_edition_entries", id |-> 17849, card |-> "rep", shape |-> "node", conv |-> "EditionEntryNode"],
    [view |-> "EditionEntryNode", name |-> "get_chapter_atoms", id |-> 182, card |-> "rep", shape |-> "node", conv |-> "ChapterAtomNode"],
    [view |-> "ChapterAtomNode", name |-> "get_uid", id |-> 29636, card |-> "mand", shape |-> "scalar", conv |-> "uint"],
    [view |-> "ChapterAtomNode", name |-> "get_string_uid", id |-> 22100, card |-> "opt", shape |-> "scalar", conv |-> "string"],
    [view |-> "ChapterAtomNode", name |-> "get_start_time", id |-> 145, card |-> "mand", shape |-> "scalar", conv |-> "uint"],
    [view |-> "ChapterAtomNode", name |-> "get_displays", id |-> 128, card |-> "rep", shape |-> "node", conv |-> "ChapterDisplayNode"],
    [view |-> "ChapterDisplayNode", name |-> "get_string", id |-> 133, card |-> "mand", shape |-> "scalar", conv |-> "string"],
    [view |-> "ChapterDisplayNode", name |-> "get_languages", id |-> 17276, card |-> "rep", shape |-> "scalar", conv |-> "string"],
    [view |-> "TagsNode", name |-> "get_tags", id |-> 29555, card |-> "rep", shape |-> "node", conv |-> "TagNode"],
    [view |-> "TagNode", name |-> "get_targets", id |-> 25536, card |-> "mand", shape |-> "node", conv |-> "TargetsNode"],
    [view |-> "TargetsNode", name |-> "get_type_value", id |-> 26826, card |-> "opt", shape |-> "scalar", conv |-> "uint"],
    [view |-> "TargetsNode", name |-> "get_type", id |-> 25546, card |-> "opt", shape |-> "scalar", conv |-> "string"],
    [view |-> "TargetsNode", name |-> "get_track_uid", id |-> 25541, card |-> "rep", shape |-> "scalar", conv |-> "uint"],
    [view |-> "SimpleTagNode", name |-> "get_name", id |-> 17827, card |-> "mand", shape |-> "scalar", conv |-> "string"],
    [view |-> "SimpleTagNode", name |-> "get_language", id |-> 17530, card |-> "mand", shape |-> "scalar", conv |-> "string"],
    [view |-> "SimpleTagNode", name |-> "get_default", id |-> 17540, card |-> "mand", shape |-> "scalar", conv |-> "uint"],
    [view |-> "SimpleTagNode", name |-> "get_string", id |-> 17543, card |-> "opt", shape |-> "scalar", conv |-> "string"],
    [view |-> "SimpleTagNode", name |-> "get_binary", id |-> 17541, card |-> "opt", shape |-> "scalar", conv |-> "bytes"]
}

RECURSIVE IntoAll(_, _)
\* map + collect of a conversion; the first failing conversion panics
IntoAll(conv, nodes) ==
    IF nodes = <<>> THEN [ok |-> TRUE, why |-> "None", values |-> <<>>]
    ELSE LET h == Into(conv, Head(nodes).element.data)
         IN  IF ~h.ok THEN [ok |-> FALSE, why |-> h.why, values |-> <<>>]
             ELSE LET t == IntoAll(conv, Tail(nodes))
                  IN  IF ~t.ok THEN t
                      ELSE [ok |-> TRUE, why |-> "None",
                            values |-> <<h.value>> \o t.values]

Wrap(nty, nodes) == [i \in 1..Len(nodes) |-> [view |-> nty, node |-> nodes[i]]]

Found(values) == [ok |-> TRUE, why |-> "None", values |-> values]
Unwrapped == [ok |-> FALSE, why |-> "MissingMandatoryField", values |-> <<>>]

\* mutant: a mandatory getter answers an absent child with no value
Getter_no_unwrap(g, n) ==
    LET list == n.children
        id   == U64(g.id)
    IN  IF g.shape = "node"
        THEN IF g.card = "rep" THEN Found(Wrap(g.conv, filter_nodes_raw(list, id)))
             ELSE Found(Wrap(g.conv, find_node(list, id)))
        ELSE IF g.card = "rep" THEN IntoAll(g.conv, filter_nodes_raw(list, id))
        ELSE IntoAll(g.conv, find_node(list, id))

\* the getter g on a view over node n: the values it returns (one for a
\* mandatory getter, at most one for an optional one, any number for a
\* repeated one), or the panic it ends in
Getter(g, n) ==
    LET list == n.children
        id   == U64(g.id)
    IN  IF g.shape = "node"
        THEN IF g.card = "rep" THEN Found(Wrap(g.conv, filter_nodes_raw(list, id)))
             ELSE LET f == find_node(list, id)
                  IN  IF f = <<>> /\ g.card = "mand" THEN Unwrapped
                      ELSE Found(Wrap(g.conv, f))
        ELSE IF g.card = "rep" THEN IntoAll(g.conv, filter_nodes_raw(list, id))
        ELSE LET f == find_node(list, id)
             IN  IF f = <<>> /\ g.card = "mand" THEN Unwrapped
                 ELSE IntoAll(g.conv, f)

\* the views that the sub-node getters of view v hand out
SubViews(v) ==
    UNION {LET r == Getter(g, v.node)
           IN  IF r.ok THEN {r.values[j] : j \in 1..Len(r.values)} ELSE {} :
           g \in {h \in Getters : h.view = v.view /\ h.shape = "node"
                                    /\ h.conv # "Node"}}

RECURSIVE ViewsFrom(_)
ViewsFrom(v) == {v} \cup UNION {ViewsFrom(w) : w \in SubViews(v)}

\* the views a caller of parse can hold: header and root as parse wraps them,
\* and what the sub-node getters return from there
ApiViews ==
    ViewsFrom([view |-> "EBMLHeaderNode", node |-> header[1]])
    \cup ViewsFrom([view |-> "SegmentNode", node |-> root[1]])

\* a getter call on a view over a node of the returned Document.  Views are
\* tuple structs over Node (node_type!) and every getter only reads the
\* children of the wrapped node, so each getter is called on each node; `api`
\* tells whether a caller of parse can hold that view
CallGetter ==
    /\ Returned
    /\ cut = -1
    /\ ret = NoCall
    /\ LET views == ApiViews
       IN  \E g \in Getters, n \in DocNodes :
              LET r == Getter(g, n)
              IN  ret' = [getter |-> g, on |-> n, times |-> 1,
                          api |-> [view |-> g.view, node |-> n] \in views,
                          status |-> IF r.ok THEN "Ok" ELSE "Panic",
                          kind |-> r.why, values |-> r.values]
    /\ UNCHANGED <<stream, pos, pc, stack, header, root, outcome, ncalls, cut,
                   overflow_checks, reader>>

\* the caller is done with the result of the last getter call
DropResult ==
    /\ ret # NoCall
    /\ ret' = NoCall
    /\ UNCHANGED <<stream, pos, pc, stack, header, root, outcome, ncalls, cut,
                   overflow_checks, reader>>

(***************************************************************************)
(* Streams for the typed views: a Segment (or other) root over a bounded   *)
(* number of well-formed children.                                         *)
(***************************************************************************)
MaxKids == 2

\* id octets, a one-octet size, the body
Elem(idbytes, body) == idbytes \o <<128 + Len(body)>> \o body

ReferenceBlockElem == Elem(<<251>>, <<2>>)
TimestampElem == Elem(<<231>>, <<5>>)
TagsIdBytes == <<18, 84, 195, 103>>

\* leaves, and BlockGroup, Slices, Targets and Tags elements, some of them
\* holding an element that a getter of the level above looks for
Items == {ReferenceBlockElem, TimestampElem,
          Elem(<<160>>, <<>>), Elem(<<160>>, ReferenceBlockElem),
          Elem(<<160>>, Elem(TagsIdBytes, <<>>)),
          Elem(<<142>>, <<>>), Elem(<<99, 192>>, <<>>),
          Elem(TagsIdBytes, <<>>), Elem(TagsIdBytes, ReferenceBlockElem)}

ItemSeqs(n) == UNION {[1..k -> Items] : k \in 0..n}

ViewInputs ==
    {MAGIC_NUMBER \o <<128>> \o Elem(SegmentIdBytes, Flatten(kids)) :
        kids \in ItemSeqs(MaxKids)}

InitView ==
    /\ \E s \in ViewInputs : InitReader(s, 0, "whole")
    /\ overflow_checks \in BuildProfiles

NextView ==
    \/ ParseCheckMagic
    \/ BuildNodeTreeCall
    \/ BuildNodeTreeReturn
    \/ CallGetter
    \/ DropResult

SpecView == InitView /\ [][NextView]_vars

(***************************************************************************)
(* Whole documents: the EBML header with its seven mandatory fields and a  *)
(* Segment over a bounded number of top-level elements, read by getter     *)
(* calls, repeated getter calls and the accessors of node_type!.           *)
(***************************************************************************)
MaxDocKids == 2

HeaderBody ==
    Elem(<<66, 134>>, <<1>>) \o Elem(<<66, 247>>, <<1>>)
    \o Elem(<<66, 242>>, <<4>>) \o Elem(<<66, 243>>, <<8>>)
    \o Elem(<<66, 130>>, <<119, 101, 98, 109>>)
    \o Elem(<<66, 135>>, <<4>>) \o Elem(<<66, 133>>, <<2>>)

TestText == <<116, 101, 115, 116>>

\* Info: timestampScale = 1000000, muxingApp = "test", writingApp = "test"
InfoElem ==
    Elem(<<21, 73, 169, 102>>,
         Elem(<<42, 215, 177>>, <<15, 66, 64>>)
         \o Elem(<<77, 128>>, TestText) \o Elem(<<87, 65>>, TestText))

TracksIdBytes == <<22, 84, 174, 107>>
TracksElem == Elem(TracksIdBytes, <<>>)

\* Tracks with one TrackEntry that holds FlagEnabled = 1 and an empty
\* FlagDefault
TracksWithEntry ==
    Elem(TracksIdBytes,
         Elem(<<174>>, Elem(<<185>>, <<1>>) \o Elem(<<136>>, <<>>)))

\* Cluster with one BlockGroup that holds a BlockDuration and a
\* ReferenceBlock
ClusterElem ==
    Elem(<<31, 67, 182, 117>>,
         Elem(<<160>>, Elem(<<155>>, <<5>>) \o ReferenceBlockElem))

DocItems == {InfoElem, TracksElem, TracksWithEntry, ClusterElem}

DocItemSeqs(n) == UNION {[1..k -> DocItems] : k \in 0..n}

DocStream(kids) ==
    Elem(MAGIC_NUMBER, HeaderBody) \o Elem(SegmentIdBytes, Flatten(kids))

MinimalStream == DocStream(<<InfoElem, TracksElem>>)

DocInputs == {DocStream(kids) : kids \in DocItemSeqs(MaxDocKids)}

InitDoc ==
    /\ \E s \in DocInputs : InitReader(s, 0, "whole")
    /\ overflow_checks \in BuildProfiles

\* get_element and get_children of a view: clones of the wrapped node's
\* element and child list
Accessors == {
    [view |-> "Node", name |-> "get_element", id |-> 0, card |-> "mand",
     shape |-> "accessor", conv |-> "element"],
    [view |-> "Node", name |-> "get_children", id |-> 0, card |-> "mand",
     shape |-> "accessor", conv |-> "children"]}

Accessor(a, n) ==
    IF a.conv = "element" THEN Found(<<n.element>>) ELSE Found(n.children)

\* an accessor call on a node of the returned Document.  The accessors are
\* public on the views of node_type! and private on Node, so `api` tells
\* whether a view that a caller of parse can hold wraps the node
CallAccessor ==
    /\ Returned
    /\ cut = -1
    /\ ret = NoCall
    /\ LET views == ApiViews
       IN  \E a \in Accessors, n \in DocNodes :
              LET r == Accessor(a, n)
              IN  ret' = [getter |-> a, on |-> n, times |-> 1,
                          api |-> \E v \in views : v.node = n,
                          status |-> "Ok", kind |-> r.why, values |-> r.values]
    /\ UNCHANGED <<stream, pos, pc, stack, header, root, outcome, ncalls, cut,
                   overflow_checks, reader>>

\* the call that produced ret is made once more, on the same view
RepeatCall ==
    /\ Returned
    /\ cut = -1
    /\ ret # NoCall
    /\ ret.times = 1
    /\ ret.on \in DocNodes
    /\ LET r == IF ret.getter.shape = "accessor"
                THEN Accessor(ret.getter, ret.on)
                ELSE Getter(ret.getter, ret.on)
       IN  ret' = [ret EXCEPT !.times = 2,
                              !.status = IF r.ok THEN "Ok" ELSE "Panic",
                              !.kind = r.why, !.values = r.values]
    /\ UNCHANGED <<stream, pos, pc, stack, header, root, outcome, ncalls, cut,
                   overflow_checks, reader>>

NextDoc ==
    \/ ParseCheckMagic
    \/ BuildNodeTreeCall
    \/ BuildNodeTreeReturn
    \/ CallGetter
    \/ CallAccessor
    \/ RepeatCall
    \/ DropResult

SpecDoc == InitDoc /\ [][NextDoc]_vars

(***************************************************************************)
(* The primitive codec on its own: a byte sequence is handed to one of the *)
(* codec functions and the result is kept in ret.                          *)
(***************************************************************************)
MaxBytes == 3

CodecBytes == {0, 1, 2, 5, 127, 128, 254, 255}

ByteSeqs(n) == UNION {[1..k -> CodecBytes] : k \in 0..n}

Rep(b, k) == [i \in 1..k |-> b]

\* the L-octet vint of v: the low L bytes of v under the length marker
vint_encode(v, L) == [SubSeq(v, 9 - L, 8) EXCEPT ![1] = @ + Pow2(8 - L)]

\* v fits the 7 * L usable bits
VintFits(v, L) == (\A i \in 1..(8 - L) : v[i] = 0) /\ v[9 - L] < Pow2(8 - L)

VintValues ==
    {U64(n) : n \in {0, 1, 127, 128, 16383, 16384, 2097151, 2097152,
                     268435455, 268435456}}
    \cup {<<0, 0, 0, 7, 255, 255, 255, 255>>, <<0, 0, 0, 8, 0, 0, 0, 0>>,
          <<0, 0, 3, 255, 255, 255, 255, 255>>, <<0, 0, 4, 0, 0, 0, 0, 0>>,
          <<0, 1, 255, 255, 255, 255, 255, 255>>, <<0, 2, 0, 0, 0, 0, 0, 0>>,
          <<0, 255, 255, 255, 255, 255, 255, 255>>}

VintInputs ==
    {vint_encode(q[1], q[2]) \o tail :
        q \in {x \in VintValues \X (1..8) : VintFits(x[1], x[2])},
        tail \in {<<>>, <<255>>}}

\* every first byte, followed by enough bytes for an identifier or a size
\* of any length and a size of 0
FirstByteInputs == {<<b>> \o Rep(128, 9) : b \in 0..255}

\* identifier, size and payload of one element; the last four sizes are more
\* than the one payload byte: 2, 2^31, 2^56 - 1 and 2^63
ElementInputs ==
    {id \o sz \o <<7>> :
        id \in {<<236>>, <<66, 134>>, <<42, 215, 177>>, SegmentIdBytes,
                <<8, 1, 2, 3, 4>>, <<1, 2, 3, 4, 5, 6, 7, 8>>},
        sz \in {<<129>>, <<64, 1>>, <<32, 0, 1>>, <<1, 0, 0, 0, 0, 0, 0, 1>>,
                <<0, 0, 0, 0, 0, 0, 0, 0, 1>>,
                <<130>>, <<8, 128, 0, 0, 0>>,
                <<1, 255, 255, 255, 255, 255, 255, 255>>,
                <<0, 128, 0, 0, 0, 0, 0, 0, 0>>}}

\* the UTF-8 encoding of a sequence of code points
RECURSIVE utf8_encode(_)
utf8_encode(cps) ==
    IF cps = <<>> THEN <<>>
    ELSE LET cp == Head(cps)
             one == IF cp < 128 THEN <<cp>>
                    ELSE IF cp < 2048
                    THEN <<192 + (cp \div 64), 128 + (cp % 64)>>
                    ELSE IF cp < 65536
                    THEN <<224 + (cp \div 4096), 128 + ((cp \div 64) % 64),
                           128 + (cp % 64)>>
                    ELSE <<240 + (cp \div 262144), 128 + ((cp \div 4096) % 64),
                           128 + ((cp \div 64) % 64), 128 + (cp % 64)>>
         IN  one \o utf8_encode(Tail(cps))

\* a Unicode scalar value: a code point that is not a surrogate
IsScalar(cp) == cp \in 0..1114111 /\ ~(cp \in 55296..57343)

TestCodePoints == {0, 65, 66, 67, 127, 128, 2047, 2048, 20309, 55295, 57344,
                   65535, 65536, 1114111}

CodePointSeqs ==
    UNION {[1..k -> TestCodePoints] : k \in 0..2} \cup {<<65, 66, 67>>}

\* overlong forms, a surrogate, a value above U+10FFFF, a lead byte that
\* does not exist, a cut sequence, stray continuation and invalid bytes
NotUtf8Inputs ==
    {<<192, 128>>, <<193, 191>>, <<224, 128, 128>>, <<237, 160, 128>>,
     <<240, 128, 128, 128>>, <<244, 144, 128, 128>>, <<245, 128, 128, 128>>,
     <<228, 189>>, <<228, 189, 149, 128>>, <<65, 255, 66>>,
     <<65, 228, 189>>, <<228, 65, 149>>}

CodecInputs ==
    ByteSeqs(MaxBytes)
    \cup {utf8_encode(cps) : cps \in CodePointSeqs}
    \cup NotUtf8Inputs
    \cup {Rep(b, k) \o t : b \in {0, 255}, k \in {6, 8}, t \in ByteSeqs(2)}
    \cup VintInputs
    \cup FirstByteInputs
    \cup ElementInputs

InitCodec ==
    /\ stream \in CodecInputs
    /\ pos = 0
    /\ pc = "codec"
    /\ stack = <<>>
    /\ header = <<>>
    /\ root = <<>>
    /\ outcome = Running
    /\ ncalls = 0
    /\ cut = -1
    /\ ret = NoCall
    /\ reader = FreshReader("whole")
    /\ overflow_checks \in BuildProfiles

CodecFrame == <<stream, pos, pc, stack, header, root, outcome, ncalls, cut,
                overflow_checks, reader>>

CodecOk(fn, value, next) ==
    [fn |-> fn, status |-> "Ok", kind |-> "None", value |-> value,
     next |-> next]

CodecPanic(fn, why) ==
    [fn |-> fn, status |-> "Panic", kind |-> why, value |-> <<>>, next |-> 0]

\* count_leading_zeros(first byte) + 1: the number of octets of a vint or
\* an identifier
prefix_length(byte) == count_leading_zeros(byte) + 1

Call_bytes_to_uint ==
    /\ pc = "codec" /\ ret = NoCall
    /\ ret' = CodecOk("bytes_to_uint", bytes_to_uint(stream), 0)
    /\ UNCHANGED CodecFrame

Call_bytes_to_int ==
    /\ pc = "codec" /\ ret = NoCall
    /\ LET r == bytes_to_int(stream)
       IN  ret' = IF r.ok THEN CodecOk("bytes_to_int", r.v, 0)
                  ELSE CodecPanic("bytes_to_int", r.why)
    /\ UNCHANGED CodecFrame

\* Into<bool> for ElementData over the bytes as payload
Call_into_bool ==
    /\ pc = "codec" /\ ret = NoCall
    /\ LET r == Into("bool", stream)
       IN  ret' = IF r.ok THEN CodecOk("into_bool", r.value.v, 0)
                  ELSE CodecPanic("into_bool", r.why)
    /\ UNCHANGED CodecFrame

\* read_vint over a reader at the start of the bytes; len is the length
\* prefix computed from the first byte
Call_read_vint ==
    /\ pc = "codec" /\ ret = NoCall
    /\ LET r == read_vint(stream, 0, overflow_checks)
           len == IF stream = <<>> THEN 0 ELSE prefix_length(stream[1])
       IN  ret' = [fn |-> "read_vint", status |-> IF r.status = "Ok" THEN "Ok"
                                                   ELSE "Panic",
                   kind |-> IF r.status = "Ok" THEN "None" ELSE r.status,
                   value |-> r.value, next |-> r.next,
                   len |-> len]
    /\ UNCHANGED CodecFrame

\* parse_element over a reader at the start of the bytes; len is the
\* id_size computed from the first byte
Call_parse_element ==
    /\ pc = "codec" /\ ret = NoCall
    /\ \E grant \in BOOLEAN :
       LET r == parse_element(stream, 0, overflow_checks, grant)
           len == IF stream = <<>> THEN 0 ELSE prefix_length(stream[1])
       IN  ret' = [fn |-> "parse_element",
                   status |-> IF r.status = "Ok" THEN "Ok"
                              ELSE Failure(r.status).status,
                   kind |-> IF r.status = "Ok" THEN "None" ELSE r.status,
                   value |-> [elem |-> r.elem, body |-> r.body],
                   next |-> r.next, len |-> len]
    /\ UNCHANGED CodecFrame

\* count_leading_zeros of the first byte
Call_count_leading_zeros ==
    /\ pc = "codec" /\ ret = NoCall
    /\ stream # <<>>
    /\ ret' = CodecOk("count_leading_zeros", count_leading_zeros(stream[1]), 0)
    /\ UNCHANGED CodecFrame

Call_bytes_to_string ==
    /\ pc = "codec" /\ ret = NoCall
    /\ LET r == bytes_to_string(stream)
       IN  ret' = IF r.ok THEN CodecOk("bytes_to_string", r.v, 0)
                  ELSE CodecPanic("bytes_to_string", r.why)
    /\ UNCHANGED CodecFrame

NextCodec ==
    \/ Call_count_leading_zeros
    \/ Call_bytes_to_string
    \/ Call_bytes_to_uint
    \/ Call_bytes_to_int
    \/ Call_into_bool
    \/ Call_read_vint
    \/ Call_parse_element
    \/ DropResult

SpecCodec == InitCodec /\ [][NextCodec]_vars

(***************************************************************************)
(* One parse that runs to its end: parse is a sequential function, so a    *)
(* step that is enabled is eventually taken.                               *)
(***************************************************************************)
MaxLive == 3

\* a size of 2, a Container id (or a size of 32), and a whole element of
\* size 0 (or a size of 0 and an id)
LiveTokens == {<<130>>, <<160>>, <<128, 128>>}

LiveTokSeqs(n) == UNION {[1..k -> LiveTokens] : k \in 0..n}

LiveInputs ==
    {MAGIC_NUMBER \o Flatten(t) : t \in LiveTokSeqs(MaxLive)}
    \cup {Flatten(t) : t \in LiveTokSeqs(2)}

\* no reader yet
InitLive ==
    /\ stream = <<>>
    /\ pos = 0
    /\ pc = "open"
    /\ stack = <<>>
    /\ header = <<>>
    /\ root = <<>>
    /\ outcome = Running
    /\ ncalls = 0
    /\ cut = -1
    /\ ret = NoCall
    /\ reader = [kind |-> "none", parses |-> 0]
    /\ overflow_checks \in BuildProfiles

\* WebmReader::new over a Cursor on one of the streams
NewReader ==
    /\ pc = "open"
    /\ \E s \in LiveInputs : stream' = s
    /\ pc' = "new"
    /\ reader' = FreshReader("whole")
    /\ UNCHANGED <<pos, stack, header, root, outcome, ncalls, cut,
                   overflow_checks, ret>>

NextLive ==
    \/ NewReader
    \/ ParseCheckMagic
    \/ BuildNodeTreeCall
    \/ BuildNodeTreeReturn

SpecLive == InitLive /\ [][NextLive]_vars /\ WF_vars(NextLive)

(***************************************************************************)
(* A second parse over a variant of the stream of a first parse, whose     *)
(* result the caller keeps in ret: bytes put behind the root, or a payload *)
(* byte of a non-container element replaced.                               *)
(***************************************************************************)
MaxAgain == 4

AgainInputs ==
    {MAGIC_NUMBER \o Flatten(t) : t \in TokSeqs(MaxAgain)}
    \cup {DocStream(kids) : kids \in DocItemSeqs(1)}
    \cup {MinimalStream}

\* what is put behind the root: single bytes, whole elements, a Segment
AppendTails == {<<128>>, <<0>>, <<255, 255>>, <<128, 128>>, <<236, 129, 7>>,
                SegmentIdBytes \o <<128>>}

PatchBytes == {0, 255}

InitAgain ==
    /\ \E s \in AgainInputs : InitReader(s, 0, "whole")
    /\ overflow_checks \in BuildProfiles

\* the result of the first parse, as the caller holds it
Kept(how) ==
    [status |-> "Document", how |-> how, header |-> header, root |-> root,
     outcome |-> outcome, pos |-> pos, ncalls |-> ncalls]

\* WebmReader::new and parse again, over the stream up to the end of the root
\* followed by other bytes
NewReaderAppended ==
    /\ pc = "done"
    /\ outcome.status = "Ok"
    /\ ret = NoCall
    /\ \E tail \in AppendTails : stream' = SubSeq(stream, 1, pos) \o tail
    /\ ret' = Kept("appended")
    /\ pos' = 0
    /\ pc' = "new"
    /\ stack' = <<>>
    /\ header' = <<>>
    /\ root' = <<>>
    /\ outcome' = Running
    /\ ncalls' = 0
    /\ reader' = FreshReader("whole")
    /\ UNCHANGED <<cut, overflow_checks>>

\* WebmReader::new and parse again, over the stream with one payload byte of
\* a non-container element replaced
NewReaderPayload ==
    /\ pc = "done"
    /\ ret = NoCall
    /\ \E n \in SeqNodes(header \o root) :
          /\ n.element.kind # "Master"
          /\ \E k \in (n.span.body + 1)..n.span.last, b \in PatchBytes :
                /\ stream[k] # b
                /\ stream' = [stream EXCEPT ![k] = b]
    /\ ret' = Kept("payload")
    /\ pos' = 0
    /\ pc' = "new"
    /\ stack' = <<>>
    /\ header' = <<>>
    /\ root' = <<>>
    /\ outcome' = Running
    /\ ncalls' = 0
    /\ reader' = FreshReader("whole")
    /\ UNCHANGED <<cut, overflow_checks>>

NextAgain ==
    \/ ParseCheckMagic
    \/ BuildNodeTreeCall
    \/ BuildNodeTreeReturn
    \/ NewReaderAppended
    \/ NewReaderPayload

SpecAgain == InitAgain /\ [][NextAgain]_vars

(***************************************************************************)
(* Readers of a returned Document.  WebmFile holds the header and root     *)
(* views; a reader borrows one of them or owns a view that a sub-node      *)
(* getter handed out (a clone), and runs its calls step by step: the clone *)
(* of get_children or get_element, the lookup in the cloned list, the      *)
(* conversion of the payload.  The steps of different readers interleave.  *)
(* ret holds the state of the readers.                                     *)
(***************************************************************************)
MaxReaders == 2

Readers == 1..MaxReaders

\* SeekHead with one Seek: SeekID (4 bytes) and SeekPosition
SeekHeadElem ==
    Elem(<<17, 77, 155, 116>>,
         Elem(<<77, 187>>, Elem(<<83, 171>>, <<21, 73, 169, 102>>)
                           \o Elem(<<83, 172>>, <<64>>)))

\* Info with timestampScale, duration (the f32 1.0) and muxingApp; no
\* writingApp
InfoDurationElem ==
    Elem(<<21, 73, 169, 102>>,
         Elem(<<42, 215, 177>>, <<15, 66, 64>>)
         \o Elem(<<68, 137>>, <<63, 128, 0, 0>>)
         \o Elem(<<77, 128>>, TestText))

ReaderInputs ==
    {DocStream(<<SeekHeadElem, InfoDurationElem>>),
     DocStream(<<TracksWithEntry, ClusterElem>>)}

\* a reader that holds no view and runs no call
NoReader ==
    [src |-> "none", own |-> <<>>, pc |-> "idle", getter |-> <<>>,
     tmp |-> <<>>, res |-> <<>>, first |-> <<>>, times |-> 0]

InitReaders ==
    /\ stream \in ReaderInputs
    /\ pos = 0
    /\ pc = "new"
    /\ stack = <<>>
    /\ header = <<>>
    /\ root = <<>>
    /\ outcome = Running
    /\ ncalls = 0
    /\ cut = -1
    /\ ret = [status |-> "readers", rd |-> [r \in Readers |-> NoReader]]
    /\ reader = FreshReader("whole")
    /\ overflow_checks \in BuildProfiles

\* get_element().data followed by one of the conversions of ElementData
PayloadCalls ==
    {[view |-> "Node", name |-> "get_element", id |-> 0, card |-> "mand",
      shape |-> "payload", conv |-> c] :
        c \in {"uint", "int", "float", "string", "bytes", "bool"}}

\* the type of the view a reader holds
ViewName(rd) ==
    IF rd.src = "header" THEN "EBMLHeaderNode"
    ELSE IF rd.src = "root" THEN "SegmentNode"
    ELSE rd.own[1].view

\* the node behind the view a reader holds: a field of WebmFile, read when
\* the step is taken, or the node of the view the reader owns
NodeAt(rd) ==
    IF rd.src = "header" THEN header[1]
    ELSE IF rd.src = "root" THEN root[1]
    ELSE rd.own[1].node

\* the calls that the type of a view offers
CallsOf(name) ==
    {g \in Getters : g.view = name} \cup Accessors \cup PayloadCalls

\* mutant: the value is moved out of its place and an empty one is left
clone_take(x) == [src |-> <<>>, copy |-> x]

\* Clone::clone(&self): the value stays where it is and a copy is returned
clone(x) == [src |-> x, copy |-> x]

\* a call ends with result res (values or a panic)
Finish(rd, res) ==
    [rd EXCEPT !.pc = "returned", !.tmp = <<>>, !.res = <<res>>,
               !.times = @ + 1,
               !.first = IF rd.times = 0 THEN <<res>> ELSE @]

\* reader r is now rd2 and the node behind its view is node2
Put(r, rd2, node2) ==
    /\ header' = IF rd2.src = "header" THEN <<node2>> ELSE header
    /\ root' = IF rd2.src = "root" THEN <<node2>> ELSE root
    /\ ret' = [ret EXCEPT !.rd[r] =
                  IF rd2.src = "owned"
                  THEN [rd2 EXCEPT !.own = <<[@[1] EXCEPT !.node = node2]>>]
                  ELSE rd2]

ReaderFrame == <<stream, pos, pc, stack, outcome, ncalls, cut, overflow_checks, reader>>

\* a reader borrows file.header or file.root
ReaderHold ==
    /\ Returned
    /\ \E r \in Readers, src \in {"header", "root"} :
          /\ ret.rd[r].pc = "idle"
          /\ ret.rd[r].src # src
          /\ ret' = [ret EXCEPT !.rd[r] = [NoReader EXCEPT !.src = src]]
    /\ UNCHANGED <<header, root>>
    /\ UNCHANGED ReaderFrame

\* a call starts, for the first time or once more: self.get_children() or
\* self.get_element() clone out of the node behind the view
ReaderBegin ==
    /\ Returned
    /\ \E r \in Readers :
          LET rd == ret.rd[r]
          IN  /\ rd.src # "none"
              /\ \/ rd.pc = "idle"
                 \/ rd.pc = "returned" /\ rd.times = 1
              /\ \E g \in (IF rd.pc = "idle" THEN CallsOf(ViewName(rd))
                           ELSE {rd.getter[1]}) :
                    LET node == NodeAt(rd)
                        on   == [rd EXCEPT !.getter = <<g>>]
                    IN  IF g.shape \in {"scalar", "node"}
                        THEN LET c == clone(node.children)
                             IN  Put(r, [on EXCEPT !.pc = "cloned",
                                                   !.tmp = c.copy],
                                     [node EXCEPT !.children = c.src])
                        ELSE IF g.conv = "children"
                        THEN LET c == clone(node.children)
                             IN  Put(r, Finish(on, Found(c.copy)),
                                     [node EXCEPT !.children = c.src])
                        ELSE IF g.shape = "accessor"
                        THEN LET c == clone(node.element)
                             IN  Put(r, Finish(on, Found(<<c.copy>>)),
                                     [node EXCEPT !.element = c.src])
                        ELSE LET c == clone(node.element)
                             IN  Put(r, [on EXCEPT !.pc = "found",
                                                   !.tmp = <<[element |-> c.copy]>>],
                                     [node EXCEPT !.element = c.src])
    /\ UNCHANGED ReaderFrame

\* the cloned list is consumed by find_node! or filter_nodes_raw!; the
\* unwrap of a mandatory getter panics when nothing was found
ReaderFind ==
    /\ Returned
    /\ \E r \in Readers :
          LET rd == ret.rd[r]
              g  == rd.getter[1]
              f  == IF g.card = "rep" THEN filter_nodes_raw(rd.tmp, U64(g.id))
                    ELSE find_node(rd.tmp, U64(g.id))
          IN  /\ rd.pc = "cloned"
              /\ ret' = [ret EXCEPT !.rd[r] =
                            IF f = <<>> /\ g.card = "mand"
                            THEN Finish(rd, Unwrapped)
                            ELSE [rd EXCEPT !.pc = "found", !.tmp = f]]
    /\ UNCHANGED <<header, root>>
    /\ UNCHANGED ReaderFrame

\* what was found is wrapped in the view type or its payload is converted
ReaderConvert ==
    /\ Returned
    /\ \E r \in Readers :
          LET rd == ret.rd[r]
              g  == rd.getter[1]
          IN  /\ rd.pc = "found"
              /\ ret' = [ret EXCEPT !.rd[r] =
                            Finish(rd, IF g.shape = "node"
                                       THEN Found(Wrap(g.conv, rd.tmp))
                                       ELSE IntoAll(g.conv, rd.tmp))]
    /\ UNCHANGED <<header, root>>
    /\ UNCHANGED ReaderFrame

\* the reader goes on with one of the views that a sub-node getter returned
ReaderDescend ==
    /\ Returned
    /\ \E r \in Readers :
          LET rd == ret.rd[r]
          IN  /\ rd.pc = "returned"
              /\ rd.res[1].ok
              /\ rd.getter[1].shape = "node" /\ rd.getter[1].conv # "Node"
              /\ \E j \in 1..Len(rd.res[1].values) :
                    ret' = [ret EXCEPT !.rd[r] =
                               [NoReader EXCEPT !.src = "owned",
                                                !.own = <<rd.res[1].values[j]>>]]
    /\ UNCHANGED <<header, root>>
    /\ UNCHANGED ReaderFrame

\* the reader is done with a result and keeps its view
ReaderDrop ==
    /\ Returned
    /\ \E r \in Readers :
          LET rd == ret.rd[r]
          IN  /\ rd.pc = "returned"
              /\ ret' = [ret EXCEPT !.rd[r] =
                            [NoReader EXCEPT !.src = rd.src, !.own = rd.own]]
    /\ UNCHANGED <<header, root>>
    /\ UNCHANGED ReaderFrame

NextReaders ==
    \/ ParseCheckMagic
    \/ BuildNodeTreeCall
    \/ BuildNodeTreeReturn
    \/ ReaderHold
    \/ ReaderBegin
    \/ ReaderFind
    \/ ReaderConvert
    \/ ReaderDescend
    \/ ReaderDrop

SpecReaders == InitReaders /\ [][NextReaders]_vars

\* impl Debug for Element: the payload is decoded by the kind of the element
ElementDebug(elem) ==
    IF elem.kind \in {"String", "UTF8"} THEN Into("string", elem.data)
    ELSE IF elem.kind = "UInt" THEN Into("uint", elem.data)
    ELSE IF elem.kind \in {"SInt", "Date"} THEN Into("int", elem.data)
    ELSE IF elem.kind = "Float" THEN Into("float", elem.data)
    ELSE Into("bytes", elem.data)

(***************************************************************************)
(* Claims.                                                                 *)
(***************************************************************************)

\* C1: in a returned Document the children of every Container add up to its
\* declared size exactly, and no child ends behind payload start + size.
C1_SpanExact ==
    \A n \in DocNodes :
        n.element.kind = "Master" =>
            /\ U64(SumLen(n.children)) = n.element.size
            /\ ~U64Less(U64Add(U64(n.span.body), n.element.size), U64(n.span.last))

C3_BadSignatureFirst ==
    (Len(stream) < 4 \/ SubSeq(stream, 1, 4) # MAGIC_NUMBER) =>
        /\ pc \in {"new", "done"}
        /\ pc = "done" => outcome = Panic("BadSignature")
        /\ ncalls = 0
        /\ stack = <<>> /\ header = <<>> /\ root = <<>>

\* C4: every failure of parse reaches the caller as an error value that parse
\* returns; parse never ends by a panic.
C4_ExplicitErrors ==
    pc = "done" => outcome.status \in {"Ok", "Err"}

Called == ret.status # "none"

\* the positions of the direct children of the called node that carry the
\* identifier of the called getter
Matches == {k \in 1..Len(ret.on.children) :
               ret.on.children[k].element.id = U64(ret.getter.id)}

\* the j-th of these positions, in document order
NthMatch(j) == CHOOSE k \in Matches : Cardinality({m \in Matches : m <= k}) = j

\* C5: when no direct child carries the getter's identifier, a mandatory
\* getter (scalar or sub-node) fails with Missing-Mandatory-Field, an optional
\* getter returns not-present without failing, and the Document stays as
\* returned; no getter reports a missing field for a child that is there.
C5_AbsenceByCardinality ==
    Called =>
        /\ Returned
        /\ (Matches = {} /\ ret.getter.card = "mand") =>
              (ret.status = "Panic" /\ ret.kind = "MissingMandatoryField")
        /\ (Matches = {} /\ ret.getter.card = "opt") =>
              (ret.status = "Ok" /\ ret.values = <<>>)
        /\ ret.kind = "MissingMandatoryField" =>
              (Matches = {} /\ ret.getter.card = "mand")

C5_Witness ==
    /\ Called /\ ret.api
    /\ ret.getter.card = "mand"
    /\ ret.status = "Panic" /\ ret.kind = "MissingMandatoryField"

\* C6: a getter that returns takes its values from the direct children of
\* its own node with the matching identifier: the first of them for a scalar
\* or single sub-node getter, all of them in document order for a repeated
\* getter, none when there is no such child.
C6_DirectChildrenInOrder ==
    (Called /\ ret.status = "Ok") =>
        /\ Len(ret.values) =
              (IF ret.getter.card = "rep" \/ Matches = {}
               THEN Cardinality(Matches) ELSE 1)
        /\ \A j \in 1..Len(ret.values) :
              LET child == ret.on.children[NthMatch(j)]
              IN  ret.values[j] =
                     (IF ret.getter.shape = "node"
                      THEN [view |-> ret.getter.conv, node |-> child]
                      ELSE Into(ret.getter.conv, child.element.data).value)

C6_Witness ==
    /\ Called /\ ret.api /\ ret.status = "Ok"
    /\ ret.getter.card = "rep"
    /\ Len(ret.values) = 1
    /\ \E k \in 1..Len(ret.on.children) :
          /\ k < NthMatch(1)
          /\ \E i \in 1..Len(ret.on.children[k].children) :
                ret.on.children[k].children[i].element.id = U64(ret.getter.id)

\* C7: every node that a getter hands out to a caller of parse inside a typed
\* container view was classified Container by parse_element.
C7_WrappedAreContainers ==
    (Called /\ ret.api /\ ret.status = "Ok"
        /\ ret.getter.shape = "node" /\ ret.getter.conv # "Node") =>
        \A j \in 1..Len(ret.values) :
            ret.values[j].node.element.kind = "Master"

\* C8: every constructed node whose identifier is not in the kind table is
\* Unknown, holds exactly declared-size payload bytes taken verbatim from the
\* stream, and has no children.
C8_UnknownOpaque ==
    \A n \in BuiltNodes :
        ~InKindTable(n.element.id) =>
            /\ n.element.kind = "Unknown"
            /\ n.children = <<>>
            /\ U64(Len(n.element.data)) = n.element.size
            /\ n.element.data = SubSeq(stream, n.span.body + 1, n.span.last)

C8_Witness ==
    /\ Returned
    /\ \E n \in DocNodes : n.element.kind = "Unknown" /\ Len(n.element.data) >= 2

\* C9: in every returned Document the header node has the EBML-header
\* identifier 0x1A45DFA3 and is a Container.
C9_HeaderIdentity ==
    Returned =>
        /\ header[1].element.id = EBMLHeaderId
        /\ header[1].element.kind = "Master"

\* the identifier octets at offset p, read as parse_element reads them
IdAt(s, p) == bytes_to_uint(SubSeq(s, p + 1, p + count_leading_zeros(s[p + 1]) + 1))

\* C10: the element behind the header becomes the root whatever its
\* identifier: when that element is a well-formed non-container (or an empty
\* container) parse succeeds, and the root of every returned Document starts
\* where the header ended and carries the identifier found there.
C10_RootUnchecked ==
    /\ (pc = "done" /\ header # <<>>) =>
          LET r == parse_element(stream, header[1].span.last, overflow_checks,
                                 TRUE)
          IN  (r.status = "Ok"
                 /\ (r.elem.kind # "Master" \/ r.elem.size = U64Zero))
              => (outcome.status = "Ok" /\ root[1].element = r.elem)
    /\ Returned =>
          /\ root[1].span.first = header[1].span.last
          /\ root[1].element.id = IdAt(stream, header[1].span.last)

C10_Witness ==
    /\ Returned
    /\ root[1].element.id # SegmentId
    /\ root[1].element.kind = "Binary"

GetterNamed(view, name) == CHOOSE g \in Getters : g.view = view /\ g.name = name

\* C11: the minimal valid stream (EBML header with its seven mandatory
\* fields, a Segment holding one Info with timestampScale 1000000 and
\* muxingApp = writingApp = "test", and one empty Tracks) parses successfully;
\* get_info_nodes on the root returns exactly one Info view whose
\* get_timestamp_scale is 1000000, and get_track_entries on the one Tracks
\* view returns the empty sequence.
C11_MinimalStream ==
    (stream = MinimalStream /\ pc = "done") =>
        /\ outcome = OkOutcome
        /\ LET infos  == Getter(GetterNamed("SegmentNode", "get_info_nodes"),
                                root[1])
               tracks == Getter(GetterNamed("SegmentNode", "get_tracks"),
                                root[1])
           IN  /\ infos.ok /\ Len(infos.values) = 1
               /\ infos.values[1].view = "InfoNode"
               /\ Getter(GetterNamed("InfoNode", "get_timestamp_scale"),
                         infos.values[1].node)
                  = Found(<<[t |-> "u64", v |-> U64(1000000)]>>)
               /\ tracks.ok /\ Len(tracks.values) = 1
               /\ Getter(GetterNamed("TracksNode", "get_track_entries"),
                         tracks.values[1].node) = Found(<<>>)
        /\ (Called /\ ret.api /\ ret.getter.name = "get_timestamp_scale") =>
              (ret.status = "Ok"
                 /\ ret.values = <<[t |-> "u64", v |-> U64(1000000)]>>)
        /\ (Called /\ ret.api /\ ret.getter.name = "get_track_entries") =>
              (ret.status = "Ok" /\ ret.values = <<>>)

C11_Witness ==
    /\ stream = MinimalStream /\ Returned
    /\ Called /\ ret.api /\ ret.getter.name = "get_timestamp_scale"
    /\ ret.values = <<[t |-> "u64", v |-> <<0, 0, 0, 0, 0, 15, 66, 64>>]>>

\* the big-endian bytes are the number 1: zeros and a final 1
IsOne(bytes) ==
    /\ bytes # <<>>
    /\ bytes[Len(bytes)] = 1
    /\ \A i \in 1..(Len(bytes) - 1) : bytes[i] = 0

\* C12: the conversion of a flag payload of 0 to 8 bytes to boolean never
\* fails; it yields true exactly when the payload is the integer 1 and false
\* for every other payload, the empty payload included.
C12_BoolTotal ==
    (Called /\ ret.fn = "into_bool" /\ Len(stream) <= 8) =>
        /\ ret.status = "Ok"
        /\ ret.value = IsOne(stream)

\* C13: once parse has returned a Document, every step of every reader,
\* however the steps of the readers interleave (getter calls, get_element,
\* get_children, the six payload conversions, each from its clone to its
\* result), leaves the header and the root of the Document and the view the
\* reader holds as they are; a call that a reader repeats on its view returns
\* what it returned the first time, whatever the other readers did in
\* between; and two readers that made the same call on the same view hold the
\* same result.
C13_ReadersLeaveDocument ==
    [][Returned =>
          /\ header' = header /\ root' = root
          /\ stream' = stream /\ pc' = pc /\ outcome' = outcome
          /\ \A r \in Readers :
                LET a == ret.rd[r]
                    b == ret'.rd[r]
                IN  /\ b.pc # "idle" => (b.src = a.src /\ b.own = a.own)
                    /\ (b.pc = "returned" /\ b.times = 2) => b.res = b.first
          /\ \A r1, r2 \in Readers :
                LET a == ret'.rd[r1]
                    b == ret'.rd[r2]
                IN  (a.pc = "returned" /\ b.pc = "returned"
                       /\ a.src = b.src /\ a.own = b.own
                       /\ a.getter = b.getter) => a.res = b.res]_vars

\* a reader has repeated a text getter on an Info view it owns and holds the
\* text, while the other reader is in the middle of its second call on the
\* root of the Document
C13_Witness ==
    /\ Returned
    /\ \E r1, r2 \in Readers :
          LET a == ret.rd[r1]
              b == ret.rd[r2]
          IN  /\ a.pc = "returned" /\ a.times = 2 /\ a.src = "owned"
              /\ a.getter[1].name = "get_muxing_app"
              /\ a.res[1].ok /\ a.res[1].values # <<>>
              /\ b.src = "root" /\ b.pc = "found" /\ b.times = 1
              /\ b.getter[1].shape = "node" /\ b.tmp # <<>>

\* C14: parse terminates on every finite stream, with a Document or with a
\* failure; every element that parse_element hands to build_node_tree moves
\* the stream position forward by at least its id and size octets (two or
\* more), so the child loop of a Container cannot go on forever.
C14_ParseTerminates ==
    /\ <>(pc = "done" /\ outcome.status \in {"Ok", "Panic", "Abort"})
    /\ [][(ncalls' = ncalls + 1 /\ outcome'.status \notin {"Panic", "Abort"}) =>
             LET r == parse_element(stream, pos, overflow_checks, TRUE)
             IN  /\ pos' >= r.body
                 /\ r.body >= pos + prefix_length(stream[pos + 1]) + 1
                 /\ pos' <= Len(stream)]_vars

C14_Witness ==
    /\ pc = "done" /\ outcome.status = "Ok"
    /\ ncalls >= 3
    /\ Len(header[1].children) >= 1

\* the conversion a getter applies suits the kind of the element
ConvAgrees(conv, kind) ==
    IF kind = "UInt" THEN conv \in {"uint", "bool"}
    ELSE IF kind \in {"SInt", "Date"} THEN conv = "int"
    ELSE IF kind = "Float" THEN conv = "float"
    ELSE IF kind \in {"String", "UTF8"} THEN conv = "string"
    ELSE IF kind = "Binary" THEN conv = "bytes"
    ELSE FALSE

\* C15: when a scalar getter, called through the views of a parsed Document,
\* finds a child whose identifier is in the kind table, the conversion it
\* applies agrees with the kind that parse_element gave the child: unsigned
\* integer or boolean for UInt, signed integer for SInt and Date, float for
\* Float, text for String and UTF8, raw bytes for Binary.
C15_ConversionMatchesKind ==
    (Called /\ ret.api /\ ret.getter.shape = "scalar" /\ Matches # {}
        /\ ret.on.children[NthMatch(1)].element.kind # "Unknown") =>
        ConvAgrees(ret.getter.conv, ret.on.children[NthMatch(1)].element.kind)

\* C16: the length prefix that read_vint and parse_element compute from the
\* first byte of a size or an identifier lies in 1..8 (1 for 0x81, 5 for
\* 0x0E, 8 for 0x01 and for 0x00), and a read_vint that returns has
\* consumed at most 8 octets.
C16_PrefixInRange ==
    (Called /\ ret.fn \in {"read_vint", "parse_element"} /\ stream # <<>>) =>
        /\ ret.len \in 1..8
        /\ stream[1] = 129 => ret.len = 1
        /\ stream[1] = 14 => ret.len = 5
        /\ stream[1] = 1 => ret.len = 8
        /\ stream[1] = 0 => ret.len = 8
        /\ (ret.fn = "read_vint" /\ ret.status = "Ok") => ret.next <= 8

IsPrefix(a, b) == Len(a) <= Len(b) /\ SubSeq(b, 1, Len(a)) = a

\* C17: read_vint applied to the L-octet encoding of a value v that fits
\* 7 * L bits (L in 1..8) returns v and consumes exactly L octets, whatever
\* follows the encoding; 0 and 127 decode from 1 octet, 128 and 16383 from 2
\* octets, 16384 from 3 octets.
C17_VintRoundTrip ==
    (Called /\ ret.fn = "read_vint") =>
        /\ \A v \in VintValues, L \in 1..8 :
              (VintFits(v, L) /\ IsPrefix(vint_encode(v, L), stream)) =>
                  (ret.status = "Ok" /\ ret.value = v /\ ret.next = L)
        /\ stream = <<128>> => (ret.value = U64(0) /\ ret.next = 1)
        /\ stream = <<255>> => (ret.value = U64(127) /\ ret.next = 1)
        /\ stream = <<64, 128>> => (ret.value = U64(128) /\ ret.next = 2)
        /\ stream = <<127, 255>> => (ret.value = U64(16383) /\ ret.next = 2)
        /\ stream = <<32, 64, 0>> => (ret.value = U64(16384) /\ ret.next = 3)

C17_Witness ==
    /\ Called /\ ret.fn = "read_vint" /\ ret.status = "Ok"
    /\ stream = <<1, 255, 255, 255, 255, 255, 255, 255, 255>>
    /\ ret.value = <<0, 255, 255, 255, 255, 255, 255, 255>>
    /\ ret.next = 8

\* the number of octets that the marker bit of a first byte announces
MarkerLen(b) ==
    IF b = 0 THEN 9
    ELSE CHOOSE L \in 1..8 : b >= Pow2(8 - L) /\ b < 2 * Pow2(8 - L)

\* the big-endian value of the bytes in 64 bits: the last 8 bytes, padded
\* with zeros on the left
BigEndian8(bytes) ==
    LET n == Len(bytes)
    IN  [i \in 1..8 |-> IF i + n - 8 >= 1 THEN bytes[i + n - 8] ELSE 0]

\* C18: a parse_element that returns has read the identifier as the raw
\* big-endian value of all the octets its first byte announces, marker bit
\* kept, and the declared size as the value of its octets with the marker bit
\* cleared; the payload starts exactly id octets plus size octets behind the
\* start of the element.
C18_IdRawSizeMasked ==
    (Called /\ ret.fn = "parse_element" /\ ret.status = "Ok") =>
        LET il == MarkerLen(stream[1])
            sf == stream[il + 1]
            sl == MarkerLen(sf)
            e  == ret.value.elem
        IN  /\ e.id = BigEndian8(SubSeq(stream, 1, il))
            /\ il <= 8 => e.id[9 - il] >= Pow2(8 - il)
            /\ e.size = BigEndian8(<<sf - (IF sl = 9 THEN 0 ELSE Pow2(8 - sl))>>
                                   \o SubSeq(stream, il + 2, il + sl))
            /\ sl <= 8 => e.size[9 - sl] < Pow2(8 - sl)
            /\ ret.value.body = il + sl

C18_Witness ==
    /\ Called /\ ret.fn = "parse_element" /\ ret.status = "Ok"
    /\ stream = <<66, 134, 64, 1, 7>>
    /\ ret.value.elem.id = U64(17030)
    /\ ret.value.elem.size = U64(1)
    /\ ret.value.body = 4

\* the bytes as a 64-bit two's-complement number, sign-extended from their
\* own width
SignExtend8(bytes) ==
    LET n == Len(bytes)
    IN  [i \in 1..8 |-> IF i + n - 8 >= 1 THEN bytes[i + n - 8]
                        ELSE IF bytes[1] >= 128 THEN 255 ELSE 0]

\* C19: for 1 to 8 bytes bytes_to_int returns the two's-complement value of
\* the big-endian bytes, sign-extended from the width of the sequence with the
\* sign taken from the top bit of the first byte: 127 for [0x7F], -2 for
\* [0xFE], 5 for [0x00, 0x05].
C19_IntSignExtended ==
    (Called /\ ret.fn = "bytes_to_int" /\ Len(stream) \in 1..8) =>
        /\ ret.status = "Ok"
        /\ ret.value = SignExtend8(stream)
        /\ stream = <<127>> => ret.value = U64(127)
        /\ stream = <<254>> =>
              ret.value = <<255, 255, 255, 255, 255, 255, 255, 254>>
        /\ stream = <<0, 5>> => ret.value = U64(5)

C19_Witness ==
    /\ Called /\ ret.fn = "bytes_to_int"
    /\ stream = <<128, 0>>
    /\ ret.value = <<255, 255, 255, 255, 255, 255, 128, 0>>

\* C20: bytes_to_uint never fails and returns the big-endian value of the
\* bytes modulo 2^64: the exact value for up to 8 bytes (0 for the empty
\* sequence, 255 for [0xFF]) and the value of the last 8 bytes of a longer
\* sequence.
C20_UintBigEndian ==
    (Called /\ ret.fn = "bytes_to_uint") =>
        /\ ret.status = "Ok"
        /\ ret.value = BigEndian8(stream)
        /\ stream = <<>> => ret.value = U64Zero
        /\ stream = <<255>> => ret.value = U64(255)

C20_Witness ==
    /\ Called /\ ret.fn = "bytes_to_uint"
    /\ Len(stream) = 10 /\ stream[1] = 255 /\ stream[3] = 255
    /\ stream[9] = 2 /\ stream[10] = 1
    /\ ret.value = <<255, 255, 255, 255, 255, 255, 2, 1>>

\* the zero bits before the first set bit of a non-zero byte
ZeroBitsBefore(b) == CHOOSE z \in 0..7 : b >= Pow2(7 - z) /\ b < 2 * Pow2(7 - z)

\* C21: count_leading_zeros returns, for every byte, the number of zero
\* bits before its first set bit (0..7 for a non-zero byte) and 8 for 0x00:
\* 0 for 0x81, 4 for 0x0E, 7 for 0x01; it returns for every byte.
C21_LeadingZeros ==
    (Called /\ ret.fn = "count_leading_zeros") =>
        /\ ret.status = "Ok"
        /\ ret.value = (IF stream[1] = 0 THEN 8 ELSE ZeroBitsBefore(stream[1]))
        /\ stream[1] # 0 => ret.value \in 0..7
        /\ stream[1] = 129 => ret.value = 0
        /\ stream[1] = 14 => ret.value = 4
        /\ stream[1] = 1 => ret.value = 7
        /\ stream[1] = 0 => ret.value = 8

C21_Witness ==
    /\ Called /\ ret.fn = "count_leading_zeros"
    /\ stream[1] = 14 /\ ret.value = 4

\* C22: bytes_to_string is strict: the encoding of a sequence of code points
\* decodes to exactly these code points ("ABC" for 41 42 43, U+4F55 for
\* E4 BD 95), and whenever the conversion returns, its result is a sequence
\* of Unicode scalar values whose UTF-8 encoding is the payload byte for byte;
\* every other payload fails with Invalid-Encoding.
C22_StrictUtf8 ==
    (Called /\ ret.fn = "bytes_to_string") =>
        /\ \A cps \in CodePointSeqs :
              stream = utf8_encode(cps) => (ret.status = "Ok" /\ ret.value = cps)
        /\ ret.status = "Ok" =>
              /\ \A i \in 1..Len(ret.value) : IsScalar(ret.value[i])
              /\ utf8_encode(ret.value) = stream
        /\ ret.status # "Ok" => ret.kind = "InvalidEncoding"
        /\ stream \in NotUtf8Inputs => ret.status = "Panic"
        /\ stream = <<65, 66, 67>> => ret.value = <<65, 66, 67>>
        /\ stream = <<228, 189, 149>> => ret.value = <<20309>>

C22_Witness ==
    /\ Called /\ ret.fn = "bytes_to_string"
    /\ stream = <<237, 160, 128>>
    /\ ret.status = "Panic" /\ ret.kind = "InvalidEncoding"

\* C23: in every returned Document a Container node has an empty payload,
\* every other node holds exactly declared-size payload bytes, and only
\* Container nodes have children.
C23_NodeShape ==
    \A n \in DocNodes :
        /\ n.element.kind = "Master" => n.element.data = <<>>
        /\ n.element.kind # "Master" =>
              U64(Len(n.element.data)) = n.element.size
        /\ n.children # <<>> => n.element.kind = "Master"

C23_Witness ==
    /\ Returned
    /\ \E n \in DocNodes :
          /\ n.element.kind = "Master" /\ n.element.size # U64Zero
          /\ \E i \in 1..Len(n.children) :
                /\ n.children[i].element.kind # "Master"
                /\ Len(n.children[i].element.data) >= 1

\* C24: parse reads the header and the root and nothing behind them: when
\* the bytes behind the root of a successfully parsed stream are replaced by
\* other bytes, parse succeeds again with the same header and root, after the
\* same number of parse_element calls, and the cursor of every returned
\* Document stands at the end of the root.
C24_NothingBehindRoot ==
    /\ Returned => pos = root[1].span.last
    /\ (pc = "done" /\ ret.status = "Document" /\ ret.how = "appended") =>
          /\ outcome = OkOutcome
          /\ header = ret.header /\ root = ret.root
          /\ pos = ret.pos /\ ncalls = ret.ncalls

C24_Witness ==
    /\ pc = "done" /\ ret.status = "Document" /\ ret.how = "appended"
    /\ outcome = OkOutcome
    /\ root[1].children # <<>>
    /\ SubSeq(stream, pos + 1, Len(stream)) = <<236, 129, 7>>

\* a node without its payload bytes: identifier, declared size, kind,
\* offsets, and the same of its children
RECURSIVE Shape(_)
Shape(n) ==
    [id |-> n.element.id, size |-> n.element.size, kind |-> n.element.kind,
     span |-> n.span,
     children |-> [i \in 1..Len(n.children) |-> Shape(n.children[i])]]

Shapes(ns) == [i \in 1..Len(ns) |-> Shape(ns[i])]

InvalidText(n) ==
    n.element.kind \in {"String", "UTF8"} /\ ~from_utf8(n.element.data).ok

\* C25: the outcome of parse does not depend on the payload bytes of
\* non-container elements: after one such byte is replaced, parse ends as it
\* ended before (the same failure, or a Document with the same tree shape,
\* identifiers, declared sizes and kinds).  A string-kind element whose
\* payload is not valid UTF-8 is part of a returned Document; only decoding
\* it, in a text getter or in the Debug rendering, fails with
\* Invalid-Encoding.
C25_PayloadBlind ==
    (pc = "done" /\ ret.status = "Document" /\ ret.how = "payload") =>
        /\ outcome = ret.outcome
        /\ pos = ret.pos /\ ncalls = ret.ncalls
        /\ Shapes(header) = Shapes(ret.header)
        /\ Shapes(root) = Shapes(ret.root)
        /\ \A n \in DocNodes :
              /\ \A i \in 1..Len(n.children) :
                    InvalidText(n.children[i]) =>
                        ~ElementDebug(n.children[i].element).ok
              /\ \A g \in Getters :
                    (g.shape = "scalar" /\ g.conv = "string" /\ g.card # "rep"
                       /\ find_node(n.children, U64(g.id)) # <<>>) =>
                        (Getter(g, n).ok
                           <=> ~InvalidText(find_node(n.children, U64(g.id))[1]))

C25_Witness ==
    /\ pc = "done" /\ ret.status = "Document" /\ ret.how = "payload"
    /\ outcome = OkOutcome
    /\ \E n \in DocNodes :
          /\ n.element.id = U64(357149030)
          /\ InvalidText(n.children[2])
          /\ Getter(GetterNamed("InfoNode", "get_muxing_app"), n)
             = [ok |-> FALSE, why |-> "InvalidEncoding", values |-> <<>>]

====
